---- MODULE Spec2Model ----
(***************************************************************************)
(* PiepsLama decision core: EventDispatcher (Bot/EventDispatcher.js),      *)
(* QueueManager (Queues/QueueManager.js), the three execution contexts     *)
(* (Queues/StandardQueue.js, EmergencyQueue.js, RespawnQueue.js) and the   *)
(* part of BotStateManager they write.                                     *)
(*                                                                         *)
(* JavaScript runs one task to completion.  pc = "idle" means the event    *)
(* loop is between tasks: only then can the environment act (a bot signal  *)
(* is dispatched, a timer fires, a planner or repository call settles).    *)
(* pc = "next" / "run" are the synchronous continuation of the current     *)
(* task inside p-queue and QueueManager.processEvent.                      *)
(*                                                                         *)
(* QueueManager.initialize() is taken as called: standardQueue exists.     *)
(***************************************************************************)
EXTENDS Integers, Sequences, FiniteSets, TLC

\* ---------------------------------------------------------------- bounds
MaxEvents == 4      \* events dispatched in one behaviour
MaxPriority == 2    \* EventMessage.priority is drawn from 1..MaxPriority
MaxPlanLen == 1     \* longest plan the planner returns
MaxCalls == 1       \* Standard planner requests in flight outside an event
MaxTimers == 1      \* pending 5 s retry timers of Standard

\* ------------------------------------------------------ program constants
Concurrency == 1            \* new PQueue({ concurrency: 1, ... })
EmergencyPriority == 1      \* setCurrentQueue('emergency', 1)
RespawnPriority == 2        \* setCurrentQueue('respawn', 2)
StandardPriority == 3       \* setCurrentQueue('standard', 3)
NoPriority == 0             \* setCurrentQueue(null, 0)

VARIABLES
  isListening,      \* EventDispatcher.isListening
  queueIsPaused,    \* p-queue isPaused (EventDispatcher.pause / resume)
  priorityQueue,    \* PriorityQueue._queue: <<[run, priority]>>
  pendingCount,     \* p-queue pending: jobs started and not settled
  processedCount,   \* EventDispatcher.processedCount
  pc,               \* "idle" | "next" (tryToStartAnother) | "run" (job body)
  cur,              \* the event whose job body is about to run (pc = "run")
  procs,            \* processEvent calls suspended at an await
  dispatched,       \* number of events accepted by dispatch(); gives the ids
  fate,             \* history: per id, "waiting" | "handed" | "twice" | "dropped"
  activeQueue,      \* QueueManager.activeQueue
  pausedQueue,      \* QueueManager.pausedQueue
  std,              \* the StandardQueue instance
  emg,              \* the EmergencyQueue instance of QueueManager.emergencyQueue
  rsp,              \* the RespawnQueue instance of QueueManager.respawnQueue
  botState,         \* BotStateManager.state (queue and goal fields)
  plannerCalls,     \* Standard planner requests in flight that no event awaits
  retryTimers,      \* pending setTimeout(..., 5000) of requestNewPlan's catch
  resetOf,          \* history: <<activeQueue, pausedQueue>> at the last reset
  lastStep,         \* history: what the last QueueManager step did
  validation,       \* one call of AiResponseParser.validateActionQueue
  recovery,         \* the ErrorRecovery instance and the operation it serves
  health,           \* the Events instance's health tracking and its emissions
  reflex,           \* one EmergencyQueue construction and its reflex step
  history,          \* an ErrorRecovery instance's error history and the clock
  manager,          \* a BotStateManager instance and the last setter call
  failure           \* a context's plan under its failure handler

vars == <<isListening, queueIsPaused, priorityQueue, pendingCount,
          processedCount, pc, cur, procs, dispatched, fate, activeQueue,
          pausedQueue, std, emg, rsp, botState, plannerCalls, retryTimers,
          resetOf, lastStep, validation, recovery, health, reflex,
          history, manager, failure>>

\* The components checked on their own, outside the event core.
libVars == <<validation, recovery, health, reflex, history, manager, failure>>

\* ------------------------------------------------------------ vocabulary
Priorities == 1..MaxPriority

\* eventMessage.response: actionRequired and targetQueue (Events.js:88-101).
\* "bogus" stands for any targetQueue that is neither emergency nor respawn.
Responses ==
  { <<"none", "null">>, <<"interrupt", "emergency">>, <<"interrupt", "respawn">>,
    <<"interrupt", "bogus">>, <<"pause", "null">>, <<"resume", "null">>,
    <<"reset", "null">>, <<"unknown", "null">> }

NoEvent == [id |-> 0, priority |-> 0, actionRequired |-> "none", targetQueue |-> "null"]

\* An Action of a plan: the fields the contexts branch on.
PlanAction == [actionName |-> "goTo", fallbackAction |-> "null"]

RECURSIVE PlansOfLen(_)
PlansOfLen(n) == IF n = 0 THEN <<>> ELSE Append(PlansOfLen(n - 1), PlanAction)

Plans == { PlansOfLen(n) : n \in 0..MaxPlanLen }

\* What a planner round yields after parsing and validation: a failure
\* without a plan (planner error, malformed output), a plan that validation
\* rejected, or a validated plan with or without goals.  stored: the
\* learning repository accepts the write that records a failed round.
PlannerResponses ==
  { [ok |-> FALSE, plan |-> p, hasGoal |-> FALSE, stored |-> TRUE] : p \in Plans } \cup
  { [ok |-> TRUE, plan |-> p, hasGoal |-> g, stored |-> TRUE] : p \in Plans, g \in BOOLEAN }

\* A failed round whose learning the repository does not store:
\* LearningManager.addLearning logs the failure and throws it on.
UnstoredFailures ==
  { [ok |-> FALSE, plan |-> p, hasGoal |-> FALSE, stored |-> FALSE] : p \in Plans }

\* ------------------------------------------------------- EventDispatcher
\* invertPriority: priority 1 (highest) becomes 0 (first in queue).
InvertPriority(priority) == priority - 1

\* PriorityQueue.enqueue, the test of the binary search: the probed element
\* sorts after the new one.
\* Variant with the comparison turned around to >=: a new element would go
\* before the waiting elements of its own priority.
ProbeIsAfterOrEqual(probe, priority) == probe >= priority

ProbeIsAfter(probe, priority) == probe > priority

\* PriorityQueue.enqueue, the binary search for the insertion point
\* (0-based index, as in the source).
RECURSIVE InsertionPoint(_, _, _, _)
InsertionPoint(q, priority, low, high) ==
  IF low < high
  THEN LET mid == (low + high) \div 2
       IN IF ProbeIsAfter(q[mid + 1].priority, priority)
          THEN InsertionPoint(q, priority, low, mid)
          ELSE InsertionPoint(q, priority, mid + 1, high)
  ELSE low

\* PriorityQueue.enqueue: this._queue.splice(low, 0, element).
Enqueue(q, run, priority) ==
  LET low == InsertionPoint(q, priority, 0, Len(q))
  IN SubSeq(q, 1, low) \o <<[run |-> run, priority |-> priority]>>
       \o SubSeq(q, low + 1, Len(q))

\* p-queue: a job is started only while pending < concurrency.
\* Variant that ignores the number of pending jobs.
AlwaysAllowAnother(pending) == TRUE

DoesConcurrentAllowAnother(pending) == pending < Concurrency

\* The processEvent calls in progress: started and not yet settled.
InProgress == procs \cup (IF pc = "run" THEN {[ev |-> cur, wait |-> "run"]} ELSE {})

\* ------------------------------------------------------ BotStateManager
\* Variant of setCurrentQueue that stores the queue type and not its priority.
SetCurrentQueueTypeOnly(w, queueType, priority) ==
  [w EXCEPT !.botState.currentQueue = queueType]

\* setCurrentQueue: a no-op when the queue type is already current.
SetCurrentQueue(w, queueType, priority) ==
  [w EXCEPT !.botState =
     IF @.currentQueue = queueType THEN @
     ELSE [@ EXCEPT !.currentQueue = queueType, !.queuePriority = priority]]

\* resetGoals
ResetGoals(w) == [w EXCEPT !.botState.currentGoal = "null"]

\* ------------------------------------------------------------- contexts
Log(w, call) == [w EXCEPT !.lastStep = Append(@, call)]

\* if (this.stateMachineService) this.stateMachineService.stop()
ServiceStop(service) == IF service = "none" THEN "none" ELSE "stopped"

\* interpret(machine).start(): the machine enters its initial state 'idle',
\* which it leaves only on START; no code of the repository sends START.
ServiceStart == "idle"

NewStandard ==
  [isExecuting |-> FALSE, isPaused |-> FALSE, currentGoal |-> "null",
   currentActionQueue |-> <<>>, currentActionIndex |-> 0, service |-> "none",
   fromStale |-> FALSE]

NewEmergency ==
  [exists |-> FALSE, isExecuting |-> FALSE, currentActionQueue |-> <<>>,
   currentActionIndex |-> 0, service |-> "none"]

NewRespawn ==
  [exists |-> FALSE, isExecuting |-> FALSE, missionType |-> "null",
   currentActionQueue |-> <<>>, currentActionIndex |-> 0, service |-> "none"]

\* A Standard planner request leaves the event's await chain: nobody awaits it.
IssueFreeCall(w) == [w EXCEPT !.plannerCalls.fresh = @ + 1]

\* StandardQueue.pause
StandardPause(w) ==
  LET w0 == Log(w, "standard.pause")
  IN IF ~w.std.isExecuting \/ w.std.isPaused THEN w0
     ELSE [w0 EXCEPT !.std.isPaused = TRUE, !.std.service = ServiceStop(@)]

\* StandardQueue.stop.  History: every request still in flight was issued
\* before this stop.
StandardStop(w) ==
  LET w0 == Log(w, "standard.stop")
      w1 == [w0 EXCEPT !.std = [@ EXCEPT !.isExecuting = FALSE,
                                         !.isPaused = FALSE,
                                         !.service = ServiceStop(@),
                                         !.currentGoal = "null",
                                         !.currentActionQueue = <<>>,
                                         !.currentActionIndex = 0,
                                         !.fromStale = FALSE],
                        !.plannerCalls = [fresh |-> 0, stale |-> @.fresh + @.stale]]
  IN SetCurrentQueue(w1, "null", NoPriority)

\* StandardQueue.executeActionQueue: an empty queue asks for a new plan,
\* otherwise a fresh state machine service is created and started.
StandardExecuteActionQueue(w) ==
  IF Len(w.std.currentActionQueue) = 0
  THEN [w |-> w, issued |-> TRUE]
  ELSE [w |-> [w EXCEPT !.std.service = ServiceStart], issued |-> FALSE]

\* StandardQueue.start up to its first await; issued: requestNewPlan called.
StandardStart(w) ==
  LET w0 == Log(w, "standard.start")
  IN IF w.std.isExecuting THEN [w |-> w0, issued |-> FALSE]
     ELSE [w |-> SetCurrentQueue([w0 EXCEPT !.std.isExecuting = TRUE,
                                            !.std.isPaused = FALSE],
                                 "standard", StandardPriority),
           issued |-> TRUE]

\* Variant of resume that leaves the context paused.
StandardResumeNoOp(w) == [w |-> Log(w, "standard.resume"), issued |-> FALSE]

\* StandardQueue.resume up to its first await.
StandardResume(w) ==
  LET w0 == Log(w, "standard.resume")
  IN IF ~w.std.isExecuting \/ ~w.std.isPaused THEN [w |-> w0, issued |-> FALSE]
     ELSE StandardExecuteActionQueue([w0 EXCEPT !.std.isPaused = FALSE])

\* Variant of updatePlanFromLLM that counts the plan's positions from 1.
UpdatePlanCountsFromOne(w, resp, stale) ==
  LET w1 == IF resp.hasGoal
            THEN [w EXCEPT !.std.currentGoal = "goal", !.botState.currentGoal = "goal"]
            ELSE w
  IN [w1 EXCEPT !.std.currentActionQueue = resp.plan,
                !.std.currentActionIndex = 1,
                !.std.fromStale = stale]

\* StandardQueue.updatePlanFromLLM
UpdatePlanFromLLM(w, resp, stale) ==
  LET w1 == IF resp.hasGoal
            THEN [w EXCEPT !.std.currentGoal = "goal", !.botState.currentGoal = "goal"]
            ELSE w
  IN [w1 EXCEPT !.std.currentActionQueue = resp.plan,
                !.std.currentActionIndex = 0,
                !.std.fromStale = stale]

\* Variant of the catch block that returns control without a retry.
PlanningFailedNoRetry(w, resp) ==
  LET w0 == IF Len(resp.plan) > 0 THEN Log(w, "LLMPlanValidationError") ELSE w
  IN Log(w0, "addLearning antiAction")

\* The catch block of StandardQueue.requestNewPlan: the error is handled,
\* recordPlanningFailure adds an antiAction learning, the retry timer is
\* armed.  The block awaits recordPlanningFailure before setTimeout, so a
\* write that the repository refuses leaves the block with the learning
\* error and no timer.  History: a validation rejection is told from a
\* planner failure.
PlanningFailed(w, resp) ==
  LET w0 == IF Len(resp.plan) > 0 THEN Log(w, "LLMPlanValidationError") ELSE w
      w1 == Log(w0, "addLearning antiAction")
  IN IF resp.stored THEN [w1 EXCEPT !.retryTimers = @ + 1]
     ELSE Log(w1, "LearningError")

\* Variant of requestNewPlan that installs whatever the planner returned.
RequestNewPlanInstallsAll(w, resp, stale) ==
  LET w0 == IF resp.ok THEN w ELSE PlanningFailed(w, resp)
      w1 == UpdatePlanFromLLM(w0, resp, stale)
  IN IF ~w1.std.isPaused THEN StandardExecuteActionQueue(w1)
     ELSE [w |-> w1, issued |-> FALSE]

\* Variant of requestNewPlan that starts the received plan although the
\* context is paused.
RequestNewPlanRunsPaused(w, resp, stale) ==
  IF resp.ok
  THEN StandardExecuteActionQueue(UpdatePlanFromLLM(w, resp, stale))
  ELSE [w |-> PlanningFailed(w, resp), issued |-> FALSE]

\* StandardQueue.requestNewPlan after the planner call settled.  issued: the
\* same await chain made another planner request (the plan was empty).
RequestNewPlanReturns(w, resp, stale) ==
  IF resp.ok
  THEN LET w1 == UpdatePlanFromLLM(w, resp, stale)
       IN IF ~w1.std.isPaused THEN StandardExecuteActionQueue(w1)
          ELSE [w |-> w1, issued |-> FALSE]
  ELSE [w |-> PlanningFailed(w, resp), issued |-> FALSE]

\* EmergencyQueue.stop
EmergencyStop(w) ==
  [Log(w, "emergency.stop") EXCEPT !.emg.isExecuting = FALSE,
                                   !.emg.service = ServiceStop(@)]

\* RespawnQueue.stop
RespawnStop(w) ==
  [Log(w, "respawn.stop") EXCEPT !.rsp.isExecuting = FALSE,
                                 !.rsp.service = ServiceStop(@)]

\* queue.stop() on whatever context the slot refers to
StopContext(w, queue) ==
  CASE queue = "standard" -> StandardStop(w)
    [] queue = "emergency" -> EmergencyStop(w)
    [] queue = "respawn" -> RespawnStop(w)
    [] OTHER -> w

\* --------------------------------------------------------- QueueManager
\* getQueuePriority
GetQueuePriority(queueType) ==
  CASE queueType = "emergency" -> EmergencyPriority
    [] queueType = "respawn" -> RespawnPriority
    [] queueType = "standard" -> StandardPriority
    [] OTHER -> NoPriority

\* handleQueueComplete(queueType): destroy the completed temporary context,
\* then resume the paused context or start Standard.  resume() and start()
\* are not awaited: a planner request they make is in flight on its own.
HandleQueueComplete(w, queueType) ==
  LET w0 == Log(w, "handleQueueComplete")
      w1 == IF w0.activeQueue # "null" /\ queueType # "standard"
            THEN [StopContext(w0, w0.activeQueue) EXCEPT
                    !.activeQueue = "null",
                    !.emg.exists = IF queueType = "emergency" THEN FALSE ELSE @,
                    !.rsp.exists = IF queueType = "respawn" THEN FALSE ELSE @]
            ELSE w0
      r  == IF w1.pausedQueue # "null"
            THEN StandardResume([w1 EXCEPT !.activeQueue = w1.pausedQueue,
                                           !.pausedQueue = "null"])
            ELSE StandardStart([w1 EXCEPT !.activeQueue = "standard"])
      w2 == IF r.issued THEN IssueFreeCall(r.w) ELSE r.w
  IN SetCurrentQueue(w2, w2.activeQueue, GetQueuePriority(w2.activeQueue))

\* startEmergencyQueue up to the await inside EmergencyQueue.start.  The
\* constructor is called with (..., learningManager, logger, emergencyContext)
\* and declares (..., learningManager, emergencyContext): its context is the
\* logger, whose type is neither 'damage' nor 'hunger', so the reflex queues
\* nothing and needsLLMPlan() holds: the context awaits the planner.
StartEmergencyQueue(w) ==
  LET w0 == Log(Log(w, "new emergency"), "emergency.start")
      w1 == [w0 EXCEPT !.emg = [NewEmergency EXCEPT !.exists = TRUE,
                                                    !.isExecuting = TRUE],
                       !.activeQueue = "emergency"]
  IN [w |-> SetCurrentQueue(w1, "emergency", EmergencyPriority), st |-> "wait_emg"]

\* startRespawnQueue up to the first await of RespawnQueue.start
\* (loadKnownLocations reads the learning repository).
StartRespawnQueue(w) ==
  LET w0 == Log(Log(w, "new respawn"), "respawn.start")
      w1 == [w0 EXCEPT !.rsp = [NewRespawn EXCEPT !.exists = TRUE,
                                                  !.isExecuting = TRUE],
                       !.activeQueue = "respawn"]
  IN [w |-> SetCurrentQueue(w1, "respawn", RespawnPriority), st |-> "wait_rsp"]

\* Variant of the pausing that moves the active context to pausedQueue
\* without calling its pause().
MoveOutgoingUnpaused(w) ==
  IF w.activeQueue = "standard"
  THEN [w EXCEPT !.pausedQueue = w.activeQueue]
  ELSE w

\* handleInterrupt, the pausing of the outgoing context.  EmergencyQueue and
\* RespawnQueue define no pause(): this.activeQueue.pause() throws a TypeError.
PauseOutgoing(w) ==
  IF w.activeQueue = "standard"
  THEN [StandardPause(w) EXCEPT !.pausedQueue = w.activeQueue]
  ELSE w

\* handleInterrupt, the construction of the incoming context.
StartTarget(w, targetQueue) ==
  CASE targetQueue = "emergency" -> StartEmergencyQueue(w)
    [] targetQueue = "respawn" -> StartRespawnQueue(w)
    [] OTHER -> [w |-> Log(w, "error: unknown target queue"), st |-> "done"]

\* Variant of handleInterrupt without the test for an Emergency that is
\* already active, over contexts whose pause() does nothing.
HandleInterruptUnguarded(w, ev) == StartTarget(PauseOutgoing(w), ev.targetQueue)

\* handleInterrupt
HandleInterrupt(w, ev) ==
  IF w.activeQueue = "emergency" /\ ev.targetQueue = "emergency"
  THEN [w |-> Log(w, "ignored"), st |-> "done"]
  ELSE IF w.activeQueue \in {"emergency", "respawn"}
       THEN [w |-> Log(w, "TypeError"), st |-> "threw"]
       ELSE StartTarget(PauseOutgoing(w), ev.targetQueue)

\* handlePause
HandlePause(w) ==
  CASE w.activeQueue = "null" -> [w |-> w, st |-> "done"]
    [] w.activeQueue = "standard" -> [w |-> StandardPause(w), st |-> "done"]
    [] OTHER -> [w |-> Log(w, "TypeError"), st |-> "threw"]

\* handleResume.  EmergencyQueue and RespawnQueue define no resume().
HandleResume(w) ==
  LET target == IF w.activeQueue # "null" THEN w.activeQueue ELSE w.pausedQueue
      w1 == IF w.activeQueue # "null" THEN w
            ELSE [w EXCEPT !.activeQueue = w.pausedQueue, !.pausedQueue = "null"]
  IN CASE target = "null" -> [w |-> w, st |-> "done"]
       [] target = "standard" ->
            LET r == StandardResume(w1)
            IN [w |-> r.w, st |-> IF r.issued THEN "wait_std" ELSE "done"]
       [] OTHER -> [w |-> Log(w1, "TypeError"), st |-> "threw"]

\* Variant of handleReset that stops both contexts and clears activeQueue
\* only.
HandleResetKeepsPaused(w) ==
  LET w1 == StopContext(Log(w, "handleReset"), w.activeQueue)
      w2 == StopContext(w1, w.pausedQueue)
      w3 == [w2 EXCEPT !.activeQueue = "null",
                       !.emg.exists = FALSE, !.rsp.exists = FALSE,
                       !.resetOf = <<w.activeQueue, w.pausedQueue>>]
  IN [w |-> SetCurrentQueue(ResetGoals(w3), "null", NoPriority), st |-> "done"]

\* handleReset
HandleReset(w) ==
  LET w1 == StopContext(Log(w, "handleReset"), w.activeQueue)
      w2 == StopContext(w1, w.pausedQueue)
      w3 == [w2 EXCEPT !.activeQueue = "null", !.pausedQueue = "null",
                       !.emg.exists = FALSE, !.rsp.exists = FALSE,
                       !.resetOf = <<w.activeQueue, w.pausedQueue>>]
  IN [w |-> SetCurrentQueue(ResetGoals(w3), "null", NoPriority), st |-> "done"]

\* Variant of handleStatusUpdate without the test for an active context.
HandleStatusUpdateAlways(w) ==
  LET r == StandardStart([w EXCEPT !.activeQueue = "standard"])
  IN [w |-> r.w, st |-> IF r.issued THEN "wait_std" ELSE "done"]

\* handleStatusUpdate
HandleStatusUpdate(w) ==
  IF w.activeQueue = "null"
  THEN LET r == StandardStart([w EXCEPT !.activeQueue = "standard"])
       IN [w |-> r.w, st |-> IF r.issued THEN "wait_std" ELSE "done"]
  ELSE [w |-> w, st |-> "done"]

\* processEvent: the switch on eventMessage.response.actionRequired.
ProcessEvent(w, ev) ==
  CASE ev.actionRequired = "interrupt" -> HandleInterrupt(w, ev)
    [] ev.actionRequired = "pause" -> HandlePause(w)
    [] ev.actionRequired = "resume" -> HandleResume(w)
    [] ev.actionRequired = "reset" -> HandleReset(w)
    [] OTHER -> HandleStatusUpdate(w)

\* Variant of EmergencyQueue.executeActionQueue whose empty-queue branch
\* completes and then falls through to the start of the state machine.
EmergencyPlanFallsThrough(w, resp) ==
  IF ~resp.ok THEN [w |-> Log(w, "ReferenceError"), st |-> "threw"]
  ELSE LET w1 == [w EXCEPT !.emg.currentActionQueue = @ \o resp.plan]
           w2 == IF Len(w1.emg.currentActionQueue) = 0
                 THEN HandleQueueComplete(
                        [Log(w1, "emergency.complete") EXCEPT !.emg.isExecuting = FALSE],
                        "emergency")
                 ELSE w1
       IN [w |-> [w2 EXCEPT !.emg.service = ServiceStart], st |-> "done"]

\* EmergencyQueue.start after the planner call of requestEmergencyPlan
\* settled.  A rejection reaches the catch block, whose first statement names
\* the undeclared handleError and err: start() rejects with a ReferenceError.
\* Otherwise the validated actions are queued and executeActionQueue either
\* completes at once (empty queue) or starts the state machine service.
EmergencyPlanReturns(w, resp) ==
  IF ~resp.ok THEN [w |-> Log(w, "ReferenceError"), st |-> "threw"]
  ELSE LET w1 == [w EXCEPT !.emg.currentActionQueue = @ \o resp.plan]
       IN IF Len(w1.emg.currentActionQueue) = 0
          THEN [w |-> HandleQueueComplete(
                        [Log(w1, "emergency.complete") EXCEPT !.emg.isExecuting = FALSE],
                        "emergency"),
                st |-> "done"]
          ELSE [w |-> [w1 EXCEPT !.emg.service = ServiceStart], st |-> "done"]

\* setDefaultMission: findBlock (fallback explore), then collectBlock.
DefaultMission ==
  << [actionName |-> "findBlock", fallbackAction |-> "explore"],
     [actionName |-> "collectBlock", fallbackAction |-> "null"] >>

\* RespawnQueue.start after loadKnownLocations.  The constructor, too, takes
\* the logger as its deathContext: requestRespawnStrategy throws on
\* distanceTo(undefined) before it reaches the planner, its catch block sets
\* the default mission, and executeMission starts the state machine service.
RespawnLoadReturns(w) ==
  LET w0 == Log(Log(Log(w, "respawn.requestRespawnStrategy"),
                    "respawn.setDefaultMission"),
                "respawn.executeMission")
  IN [w |-> [w0 EXCEPT !.rsp.missionType = "fresh_start",
                       !.rsp.currentActionQueue = DefaultMission,
                       !.rsp.service = ServiceStart],
      st |-> "done"]

\* ---------------------------------------------------------------- state
World ==
  [activeQueue |-> activeQueue, pausedQueue |-> pausedQueue, std |-> std,
   emg |-> emg, rsp |-> rsp, botState |-> botState,
   plannerCalls |-> plannerCalls, retryTimers |-> retryTimers,
   resetOf |-> resetOf, lastStep |-> <<>>]

\* The step takes the program to w, if w is within the bounds.
Commit(w) ==
  /\ w.plannerCalls.fresh + w.plannerCalls.stale <= MaxCalls
  /\ w.retryTimers <= MaxTimers
  /\ activeQueue' = w.activeQueue
  /\ pausedQueue' = w.pausedQueue
  /\ std' = w.std
  /\ emg' = w.emg
  /\ rsp' = w.rsp
  /\ botState' = w.botState
  /\ plannerCalls' = w.plannerCalls
  /\ retryTimers' = w.retryTimers
  /\ resetOf' = w.resetOf
  /\ lastStep' = w.lastStep

contextVars == <<activeQueue, pausedQueue, std, emg, rsp, botState,
                 plannerCalls, retryTimers, resetOf>>

\* The state of the event core after construction.
CoreInit ==
  /\ isListening = FALSE
  /\ queueIsPaused = FALSE
  /\ priorityQueue = <<>>
  /\ pendingCount = 0
  /\ processedCount = 0
  /\ pc = "idle"
  /\ cur = NoEvent
  /\ procs = {}
  /\ dispatched = 0
  /\ fate = <<>>
  /\ activeQueue = "null"
  /\ pausedQueue = "null"
  /\ std = NewStandard
  /\ emg = NewEmergency
  /\ rsp = NewRespawn
  /\ botState = [currentQueue |-> "null", queuePriority |-> NoPriority,
                 currentGoal |-> "null"]
  /\ plannerCalls = [fresh |-> 0, stale |-> 0]
  /\ retryTimers = 0
  /\ resetOf = <<"none", "none">>
  /\ lastStep = <<>>

coreVars == <<isListening, queueIsPaused, priorityQueue, pendingCount,
              processedCount, pc, cur, procs, dispatched, fate, contextVars,
              lastStep>>

\* No library call has been set up.
LibIdle ==
  /\ validation = "none"
  /\ recovery = "none"
  /\ health = "none"
  /\ reflex = "none"
  /\ history = "none"
  /\ manager = "none" /\ failure = "none"

Init == CoreInit /\ LibIdle

\* ------------------------------------------------- EventDispatcher steps
\* startListening
StartListening ==
  /\ pc = "idle"
  /\ ~isListening
  /\ isListening' = TRUE
  /\ UNCHANGED <<queueIsPaused, priorityQueue, pendingCount, processedCount,
                 pc, cur, procs, dispatched, fate, contextVars>>
  /\ lastStep' = <<>>
  /\ UNCHANGED libVars

\* History: the events waiting in q are dropped.
Drop(f, q) ==
  [i \in 1..Len(f) |->
     IF \E k \in 1..Len(q) : q[k].run.id = i THEN "dropped" ELSE f[i]]

\* stopListening: the waiting events are dropped, a running job goes on.
StopListening ==
  /\ pc = "idle"
  /\ isListening
  /\ isListening' = FALSE
  /\ priorityQueue' = <<>>
  /\ fate' = Drop(fate, priorityQueue)
  /\ UNCHANGED <<queueIsPaused, pendingCount, processedCount, pc, cur, procs,
                 dispatched, contextVars>>
  /\ lastStep' = <<>>
  /\ UNCHANGED libVars

\* clearQueue: priorityQueue.clear()
ClearQueue ==
  /\ pc = "idle"
  /\ Len(priorityQueue) > 0
  /\ priorityQueue' = <<>>
  /\ fate' = Drop(fate, priorityQueue)
  /\ UNCHANGED <<isListening, queueIsPaused, pendingCount, processedCount, pc,
                 cur, procs, dispatched, contextVars>>
  /\ lastStep' = <<>>
  /\ UNCHANGED libVars

\* pause: priorityQueue.pause()
PauseDispatcher ==
  /\ pc = "idle"
  /\ ~queueIsPaused
  /\ queueIsPaused' = TRUE
  /\ UNCHANGED <<isListening, priorityQueue, pendingCount, processedCount, pc,
                 cur, procs, dispatched, fate, contextVars>>
  /\ lastStep' = <<>>
  /\ UNCHANGED libVars

\* resume: priorityQueue.start() starts draining again.
ResumeDispatcher ==
  /\ pc = "idle"
  /\ queueIsPaused
  /\ queueIsPaused' = FALSE
  /\ pc' = "next"
  /\ UNCHANGED <<isListening, priorityQueue, pendingCount, processedCount,
                 cur, procs, dispatched, fate, contextVars>>
  /\ lastStep' = <<>>
  /\ UNCHANGED libVars

\* dispatch(eventMessage): ignored unless listening; the job is inserted by
\* inverted priority and p-queue tries to start a job.
Dispatch ==
  /\ pc = "idle"
  /\ isListening
  /\ dispatched < MaxEvents
  /\ \E priority \in Priorities, response \in Responses :
       LET ev == [id |-> dispatched + 1, priority |-> priority,
                  actionRequired |-> response[1], targetQueue |-> response[2]]
       IN /\ priorityQueue' = Enqueue(priorityQueue, ev, InvertPriority(priority))
  /\ dispatched' = dispatched + 1
  /\ fate' = Append(fate, "waiting")
  /\ pc' = "next"
  /\ UNCHANGED <<isListening, queueIsPaused, pendingCount, processedCount, cur,
                 procs, contextVars>>
  /\ lastStep' = <<>>
  /\ UNCHANGED libVars

\* Variant of dequeue that reads the head and leaves it in the queue.
DequeueKeepsHead(q) == q

\* PriorityQueue.dequeue: shift() removes the head.
Dequeue(q) == Tail(q)

\* History: the event of this id is handed to processEvent.
Hand(f, id) == [f EXCEPT ![id] = IF @ = "waiting" THEN "handed" ELSE "twice"]

\* p-queue tryToStartAnother: dequeue() takes the head of the queue.
TryToStartAnother ==
  /\ pc = "next"
  /\ IF Len(priorityQueue) > 0 /\ ~queueIsPaused
          /\ DoesConcurrentAllowAnother(pendingCount)
     THEN /\ cur' = Head(priorityQueue).run
          /\ priorityQueue' = Dequeue(priorityQueue)
          /\ pendingCount' = pendingCount + 1
          /\ fate' = Hand(fate, Head(priorityQueue).run.id)
          /\ pc' = "run"
     ELSE /\ pc' = "idle"
          /\ UNCHANGED <<cur, priorityQueue, pendingCount, fate>>
  /\ UNCHANGED <<isListening, queueIsPaused, processedCount, procs, dispatched,
                 contextVars>>
  /\ lastStep' = <<>>
  /\ UNCHANGED libVars

\* Variant in which a processEvent that threw leaves its job pending.
SettleUnlessThrown(p, st) ==
  /\ procs' = procs \ {p}
  /\ processedCount' = IF st = "threw" THEN processedCount ELSE processedCount + 1
  /\ pendingCount' = IF st = "threw" THEN pendingCount ELSE pendingCount - 1
  /\ pc' = "next"

\* _processEvent settles: processedCount++ unless processEvent threw, then
\* p-queue's next(): pending-- and tryToStartAnother.
Settle(p, st) ==
  /\ procs' = procs \ {p}
  /\ processedCount' = IF st = "threw" THEN processedCount ELSE processedCount + 1
  /\ pendingCount' = pendingCount - 1
  /\ pc' = "next"

\* _processEvent suspends at an await of processEvent.
Suspend(p, st) ==
  /\ procs' = (procs \ {p}) \cup {[ev |-> p.ev, wait |-> st]}
  /\ pc' = "idle"
  /\ UNCHANGED <<processedCount, pendingCount>>

Continue(p, st) ==
  IF st \in {"done", "threw"} THEN Settle(p, st) ELSE Suspend(p, st)

\* The job body: _processEvent awaits queueManager.processEvent(eventMessage).
RunProcessEvent ==
  /\ pc = "run"
  /\ LET r == ProcessEvent(
                IF cur.actionRequired \in {"interrupt", "pause", "resume"}
                THEN [World EXCEPT !.resetOf = <<"none", "none">>]
                ELSE World, cur)
     IN /\ Commit(r.w)
        /\ Continue([ev |-> cur, wait |-> "run"], r.st)
  /\ cur' = NoEvent
  /\ UNCHANGED <<isListening, queueIsPaused, priorityQueue, dispatched, fate>>
  /\ UNCHANGED libVars

\* ------------------------------------------------------ asynchronous steps
\* The world at the start of a continuation of its own: nothing done yet.
Untraced == [World EXCEPT !.lastStep = <<>>]

\* History: the learning repository's error left requestNewPlan.
LearningThrown(step) ==
  \E i \in 1..Len(step) : step[i] = "LearningError"

\* History: the step called requestNewPlan outside an event.
Requested(w) == Log(w, "standard.requestNewPlan")

\* The planner call awaited by the event (through start() or resume() of
\* Standard) settles with one of the given responses.  A learning error
\* that leaves requestNewPlan rejects start() or resume() and with it
\* processEvent.
StandardPlanReturnsFrom(responses) ==
  /\ pc = "idle"
  /\ \E p \in procs, resp \in responses :
       /\ p.wait = "wait_std"
       /\ LET r == RequestNewPlanReturns(Untraced, resp, FALSE)
          IN /\ Commit(IF r.issued THEN Requested(r.w) ELSE r.w)
             /\ Continue(p, IF r.issued THEN "wait_std"
                            ELSE IF LearningThrown(r.w.lastStep) THEN "threw"
                            ELSE "done")
  /\ UNCHANGED <<isListening, queueIsPaused, priorityQueue, cur, dispatched, fate>>
  /\ UNCHANGED libVars

StandardPlanReturns == StandardPlanReturnsFrom(PlannerResponses)

\* A planner call of Standard that no event awaits settles with one of the
\* given responses; nothing receives a learning error that leaves it.
FreePlanReturnsFrom(responses) ==
  /\ pc = "idle"
  /\ \E kind \in {"fresh", "stale"}, resp \in responses :
       /\ plannerCalls[kind] > 0
       /\ LET r == RequestNewPlanReturns(Untraced, resp, kind = "stale")
          IN Commit(IF r.issued THEN Requested(r.w)
                    ELSE [r.w EXCEPT !.plannerCalls[kind] = @ - 1])
  /\ UNCHANGED <<isListening, queueIsPaused, priorityQueue, pendingCount,
                 processedCount, pc, cur, procs, dispatched, fate>>
  /\ UNCHANGED libVars

FreePlanReturns == FreePlanReturnsFrom(PlannerResponses)

\* The retry timer of requestNewPlan's catch block fires.
RetryTimerFires ==
  /\ pc = "idle"
  /\ retryTimers > 0
  /\ LET w == [World EXCEPT !.retryTimers = @ - 1]
     IN Commit(IF w.std.isExecuting /\ ~w.std.isPaused
               THEN Requested(IssueFreeCall(w)) ELSE w)
  /\ UNCHANGED <<isListening, queueIsPaused, priorityQueue, pendingCount,
                 processedCount, pc, cur, procs, dispatched, fate>>
  /\ UNCHANGED libVars

\* The planner call of EmergencyQueue.start settles.
EmergencyPlanSettles ==
  /\ pc = "idle"
  /\ \E p \in procs, resp \in PlannerResponses :
       /\ p.wait = "wait_emg"
       /\ LET r == EmergencyPlanReturns(World, resp)
          IN Commit(r.w) /\ Continue(p, r.st)
  /\ UNCHANGED <<isListening, queueIsPaused, priorityQueue, cur, dispatched, fate>>
  /\ UNCHANGED libVars

\* The repository reads of RespawnQueue.start settle.
RespawnLoadSettles ==
  /\ pc = "idle"
  /\ \E p \in procs :
       /\ p.wait = "wait_rsp"
       /\ LET r == RespawnLoadReturns(World)
          IN Commit(r.w) /\ Continue(p, r.st)
  /\ UNCHANGED <<isListening, queueIsPaused, priorityQueue, cur, dispatched, fate>>
  /\ UNCHANGED libVars

Next ==
  \/ StartListening
  \/ StopListening
  \/ ClearQueue
  \/ PauseDispatcher
  \/ ResumeDispatcher
  \/ Dispatch
  \/ TryToStartAnother
  \/ RunProcessEvent
  \/ StandardPlanReturns
  \/ FreePlanReturns
  \/ RetryTimerFires
  \/ EmergencyPlanSettles
  \/ RespawnLoadSettles

Spec == Init /\ [][Next]_vars

\* Events dispatched in one behaviour of FairSpec.
MaxFairEvents == 3

\* The same program under the scheduling of the JavaScript runtime: a task
\* of the dispatcher that is ready runs; a timer that is due fires and a
\* planner call that nobody awaits settles (the HTTP request answers, fails
\* or times out) whenever the call stack is empty, however often other
\* callbacks run in between.  The arrival of events and the calls of the
\* dispatcher's methods are left to the environment.
FairNext ==
  \/ StartListening
  \/ StopListening
  \/ ClearQueue
  \/ PauseDispatcher
  \/ ResumeDispatcher
  \/ Dispatch /\ dispatched' <= MaxFairEvents
  \/ TryToStartAnother
  \/ RunProcessEvent
  \/ StandardPlanReturns
  \/ FreePlanReturns
  \/ RetryTimerFires
  \/ EmergencyPlanSettles
  \/ RespawnLoadSettles

FairSpec ==
  /\ Init /\ [][FairNext]_vars
  /\ WF_vars(TryToStartAnother)
  /\ WF_vars(RunProcessEvent)
  /\ SF_vars(RetryTimerFires)
  /\ SF_vars(FreePlanReturns)

\* The program with a learning repository that may refuse a write, over
\* a bounded number of events.
StandardPlanSettles == StandardPlanReturnsFrom(PlannerResponses \cup UnstoredFailures)

FreePlanSettles == FreePlanReturnsFrom(PlannerResponses \cup UnstoredFailures)

StorageNext ==
  \/ StartListening
  \/ StopListening
  \/ ClearQueue
  \/ PauseDispatcher
  \/ ResumeDispatcher
  \/ Dispatch /\ dispatched' <= MaxFairEvents
  \/ TryToStartAnother
  \/ RunProcessEvent
  \/ StandardPlanSettles
  \/ FreePlanSettles
  \/ RetryTimerFires
  \/ EmergencyPlanSettles
  \/ RespawnLoadSettles

StorageSpec == Init /\ [][StorageNext]_vars

\* ================================================================ claims
Waiting == { priorityQueue[i].run : i \in 1..Len(priorityQueue) }

\* a is handed over before b: smaller priority number, earlier arrival on ties.
Precedes(a, b) ==
  \/ a.priority < b.priority
  \/ a.priority = b.priority /\ a.id < b.id

\* C1: the event the dispatcher takes has the smallest priority number of
\* all waiting events and is the earliest dispatched of that priority; the
\* waiting events are kept in that order, so a batch dispatched before
\* draining starts is processed in stable ascending priority order.
C1_TakesSmallestPriorityEarliestFirst ==
  /\ \A i, j \in 1..Len(priorityQueue) :
       i < j => Precedes(priorityQueue[i].run, priorityQueue[j].run)
  /\ pc = "run" => \A e \in Waiting : Precedes(cur, e)

\* Witness of C1: the event taken overtook an earlier event of larger priority
\* number and goes before a later event of its own priority.
C1_Witness ==
  /\ pc = "run"
  /\ \E e \in Waiting : e.id < cur.id /\ e.priority > cur.priority
  /\ \E e \in Waiting : e.id > cur.id /\ e.priority = cur.priority

\* C2: never two processEvent calls of the dispatcher in progress at once.
C2_OneProcessEventAtATime == Cardinality(InProgress) <= 1

\* Witness of C2: a processEvent call is suspended at an await while another
\* event waits in the queue of a dispatcher that is not paused.
C2_Witness ==
  /\ procs # {}
  /\ pc = "idle"
  /\ ~queueIsPaused
  /\ Len(priorityQueue) > 0

\* call occurs in the trace of a step.
Logged(step, call) == \E i \in 1..Len(step) : step[i] = call

\* a occurs before b in the trace of a step.
LoggedBefore(step, a, b) ==
  \E i, j \in 1..Len(step) : i < j /\ step[i] = a /\ step[j] = b

Constructed(step) == Logged(step, "new emergency") \/ Logged(step, "new respawn")

\* The step is the call of processEvent for an event of these kinds.
Processing(actions) == pc = "run" /\ cur.actionRequired \in actions

\* C3: the Queue Manager never holds the same context as the active and as
\* the paused one (each slot holds at most one context by construction).
C3_ActiveAndPausedDiffer == activeQueue = "null" \/ activeQueue # pausedQueue

\* C4: an interrupt for emergency (respawn) processed while an Emergency
\* (Respawn) context is active constructs no context and leaves both slots
\* and the contexts' execution state as they were.
C4_SameTypeInterruptChangesNothing ==
  [][ ( /\ Processing({"interrupt"})
        /\ cur.targetQueue \in {"emergency", "respawn"}
        /\ activeQueue = cur.targetQueue )
      => /\ ~Constructed(lastStep')
         /\ activeQueue' = activeQueue
         /\ pausedQueue' = pausedQueue
         /\ emg' = emg
         /\ rsp' = rsp
         /\ std' = std ]_vars

\* Witness of C4: a second emergency interrupt was processed while the
\* Emergency context of the first was active, and was ignored.
C4_Witness ==
  /\ lastStep = <<"ignored">>
  /\ activeQueue = "emergency"
  /\ emg.exists /\ emg.isExecuting

\* C5: an interrupt for emergency or respawn processed while Standard is
\* active calls Standard.pause() before it constructs the new context, and
\* ends with Standard in pausedQueue and the new context in activeQueue.
C5_PauseBeforeConstruct ==
  [][ ( /\ Processing({"interrupt"})
        /\ cur.targetQueue \in {"emergency", "respawn"}
        /\ activeQueue = "standard" )
      => /\ LoggedBefore(lastStep', "standard.pause",
                         IF cur.targetQueue = "emergency" THEN "new emergency"
                         ELSE "new respawn")
         /\ pausedQueue' = "standard"
         /\ activeQueue' = cur.targetQueue
         /\ IF cur.targetQueue = "emergency" THEN emg'.exists ELSE rsp'.exists ]_vars

\* Witness of C5: Standard was executing, was paused, and then the Respawn
\* context was constructed and started.
C5_Witness ==
  /\ lastStep = <<"standard.pause", "new respawn", "respawn.start">>
  /\ std.isExecuting /\ std.isPaused
  /\ pausedQueue = "standard"
  /\ activeQueue = "respawn"

\* The state with the trace of the step that led to it.
Traced == [World EXCEPT !.lastStep = lastStep]

\* What handleQueueComplete must have established for a completed context of
\* type queueType, given the pausedQueue it found.
HandedOver(queueType, pausedBefore, w) ==
  /\ Logged(w.lastStep, IF queueType = "emergency" THEN "emergency.stop"
                        ELSE "respawn.stop")
  /\ IF queueType = "emergency" THEN ~w.emg.exists ELSE ~w.rsp.exists
  /\ IF pausedBefore # "null"
     THEN /\ w.activeQueue = pausedBefore
          /\ w.pausedQueue = "null"
          /\ Logged(w.lastStep, "standard.resume")
     ELSE /\ w.activeQueue = "standard"
          /\ Logged(w.lastStep, "standard.start")
  /\ w.activeQueue # "null"
  /\ w.std.isExecuting /\ ~w.std.isPaused

\* C6: when an Emergency or Respawn context signals completion it is stopped
\* and discarded; a paused context becomes the active one and is resumed,
\* leaving pausedQueue empty, otherwise Standard becomes active and is
\* started; afterwards activeQueue is not empty and that context runs.
\* First conjunct: the completions that occur.  Second conjunct: the
\* completion handler applied wherever such a context is the active one.
C6_CompletionHandsOver ==
  [][ /\ Logged(lastStep', "handleQueueComplete")
         => HandedOver("emergency", pausedQueue, Traced')
      /\ \A queueType \in {"emergency", "respawn"} :
           activeQueue = queueType
           => HandedOver(queueType, pausedQueue, HandleQueueComplete(World, queueType))
    ]_vars

\* Witness of C6: an Emergency context completed while Standard was paused,
\* and Standard was promoted and resumed.
C6_Witness ==
  /\ LoggedBefore(lastStep, "emergency.complete", "handleQueueComplete")
  /\ LoggedBefore(lastStep, "emergency.stop", "standard.resume")
  /\ activeQueue = "standard"
  /\ std.isExecuting /\ ~std.isPaused

\* C7: no context is left in pausedQueue while activeQueue is empty.
C7_NoPausedWithoutActive == pausedQueue # "null" => activeQueue # "null"

\* Witness of C7: a reset was processed while a context was active and
\* another one paused.
C7_Witness ==
  /\ resetOf[2] = "standard"
  /\ Logged(lastStep, "standard.stop")
  /\ activeQueue = "null"

\* C8: BotState.currentQueue is the type of the active context (null when
\* there is none) and BotState.queuePriority that type's priority:
\* emergency 1, respawn 2, standard 3, none 0.
C8_BotStateTracksActiveQueue ==
  /\ botState.currentQueue = activeQueue
  /\ botState.queuePriority =
       CASE activeQueue = "emergency" -> 1
         [] activeQueue = "respawn" -> 2
         [] activeQueue = "standard" -> 3
         [] OTHER -> 0

\* Witness of C8: a completion has handed over from Emergency to Standard.
C8_Witness ==
  /\ Logged(lastStep, "handleQueueComplete")
  /\ botState.currentQueue = "standard"
  /\ botState.queuePriority = 3

\* C9: a reset processed while Emergency is active and Standard paused stops
\* both contexts, empties both slots, clears the goals and the current
\* queue; until the next status update starts Standard it stays clean (no
\* goal, no actions, index 0), and the plan Standard then holds is one it
\* requested after the reset, whatever request of before the reset settles.
C9_ResetRestartsStandardClean ==
  resetOf = <<"emergency", "standard">> =>
    /\ Logged(lastStep, "handleReset")
         => /\ Logged(lastStep, "emergency.stop")
            /\ Logged(lastStep, "standard.stop")
    /\ activeQueue = "null"
         => /\ pausedQueue = "null"
            /\ ~emg.isExecuting /\ ~std.isExecuting
            /\ botState.currentQueue = "null"
            /\ botState.currentGoal = "null"
            /\ std.currentGoal = "null"
            /\ std.currentActionQueue = <<>>
            /\ std.currentActionIndex = 0
    /\ activeQueue = "standard" => ~std.fromStale

\* C10: an event whose actionRequired is 'none' or not recognised makes
\* Standard the active context and starts it when no context is active, and
\* otherwise changes neither slot nor any context.
C10_StatusUpdateStartsStandardOnlyWhenIdle ==
  [][ ( /\ pc = "run"
        /\ cur.actionRequired \notin {"interrupt", "pause", "resume", "reset"} )
      => IF activeQueue = "null"
         THEN /\ activeQueue' = "standard"
              /\ Logged(lastStep', "standard.start")
              /\ std'.isExecuting /\ ~std'.isPaused
              /\ \E p \in procs' : p.wait = "wait_std"
         ELSE /\ lastStep' = <<>>
              /\ activeQueue' = activeQueue
              /\ pausedQueue' = pausedQueue
              /\ std' = std
              /\ emg' = emg
              /\ rsp' = rsp ]_vars

\* Witness of C10: an event of unrecognised actionRequired has started
\* Standard, whose first plan request is awaited.
C10_Witness ==
  /\ lastStep = <<"standard.start">>
  /\ activeQueue = "standard"
  /\ \E p \in procs : p.wait = "wait_std" /\ p.ev.actionRequired = "unknown"

Thrown(step) == Logged(step, "TypeError") \/ Logged(step, "ReferenceError")

\* C11: a processEvent that throws is caught and the drain goes on: its job
\* is released, the next waiting event is handed over at once, and the
\* dispatcher never rests with waiting events unless it is paused.
C11_ThrowDoesNotStopTheDrain ==
  [][ /\ (Thrown(lastStep) /\ pc = "next")
         => /\ pendingCount = 0
            /\ (Len(priorityQueue) > 0 /\ ~queueIsPaused)
                 => /\ pc' = "run"
                    /\ cur' = Head(priorityQueue).run
      /\ (pc = "idle" /\ procs = {})
         => /\ pendingCount = 0
            /\ Len(priorityQueue) = 0 \/ queueIsPaused
    ]_vars

\* Witness of C11: a processEvent call has just thrown while another event
\* waits in the queue of a dispatcher that is not paused.
C11_Witness ==
  /\ Thrown(lastStep)
  /\ pc = "next"
  /\ Len(priorityQueue) > 0
  /\ ~queueIsPaused

\* C12: an accepted event is handed to processEvent at most once, and it is
\* either still waiting in the queue (once), was handed over, or was dropped
\* by stopListening or clearQueue: none is lost and none is handed twice.
C12_HandedAtMostOnceAndNotLost ==
  /\ Len(fate) = dispatched
  /\ \A id \in 1..Len(fate) :
       /\ fate[id] # "twice"
       /\ Cardinality({k \in 1..Len(priorityQueue) : priorityQueue[k].run.id = id})
            = IF fate[id] = "waiting" THEN 1 ELSE 0

\* Witness of C12: of four accepted events one was dropped, one is waiting
\* and two were handed over.
C12_Witness ==
  /\ \E id \in 1..Len(fate) : fate[id] = "dropped"
  /\ \E id \in 1..Len(fate) : fate[id] = "waiting"
  /\ Cardinality({id \in 1..Len(fate) : fate[id] = "handed"}) = 2

\* The actions of Standard's plan that have not completed.
Remaining(q) == SubSeq(q.currentActionQueue, q.currentActionIndex + 1,
                       Len(q.currentActionQueue))

\* C13: a context paused mid-plan that is not stopped or reset keeps, while
\* it is paused and at the step that resumes it, exactly the actions that had
\* not completed when it was paused, in their order: what it executes after
\* the resume is what was pending at the pause.
C13_PausedPlanIsKept ==
  [][ ( /\ std.isExecuting /\ std.isPaused
        /\ Len(Remaining(std)) > 0
        /\ ~Logged(lastStep', "standard.stop") /\ std'.isExecuting )
      => Remaining(std') = Remaining(std)
    ]_vars

\* Planner requests sent and not yet settled: Standard's requests nobody
\* awaits, and the requests an event's await chain is suspended on.
PlanRequestsInFlight ==
  plannerCalls.fresh + plannerCalls.stale
    + Cardinality({p \in procs : p.wait \in {"wait_std", "wait_emg"}})

\* C14: at no time are two plan requests of the core in flight together,
\* whether one context issued both or two contexts one each.
C14_OnePlanRequestAtATime == PlanRequestsInFlight <= 1

\* ------------------------------------------- AiResponseParser, on its own
MaxActions == 3

\* What the planner's parameters and the validator's parameters can be.
RawParams == {"raw1", "raw2"}
ValidatedParams == {"raw1", "norm1"}

\* The entries a planner's JSON array can hold: null, an object without
\* actionName, an object without parameters, or an action; an action comes
\* with what ActionValidator.validate returns for it.
ActionEntries ==
  [shape : {"null", "noName", "noParams"}]
    \cup [shape : {"action"}, parameters : RawParams,
          isValid : {FALSE}]
    \cup [shape : {"action"}, parameters : RawParams,
          isValid : {TRUE}, validatedParams : ValidatedParams]

RECURSIVE ArraysOfLen(_)
ArraysOfLen(n) ==
  IF n = 0 THEN {<<>>}
  ELSE {Append(a, e) : a \in ArraysOfLen(n - 1), e \in ActionEntries}

ActionArrays == UNION {ArraysOfLen(n) : n \in 0..MaxActions}

\* this.actionValidator.validate(action, bot, botStateManager)
ActionValidatorValidate(action) ==
  IF action.isValid
  THEN [isValid |-> TRUE, validatedParams |-> action.validatedParams]
  ELSE [isValid |-> FALSE]

\* The for loop of validateActionQueue from JavaScript index i on.  A throw
\* ends the call: the caller gets the error and no array.
\* An error message that holds no index.
NoIndex == -1

\* validateActionQueue has not returned.
Pending == [threw |-> "pending"]

RECURSIVE ValidateFrom(_, _, _)
ValidateFrom(actionQueue, i, validatedActions) ==
  IF i >= Len(actionQueue)
  THEN [threw |-> "none", index |-> NoIndex, validatedActions |-> validatedActions]
  ELSE LET action == actionQueue[i + 1]
       IN CASE action.shape = "null" ->
                 \* action.actionName on null
                 [threw |-> "TypeError", index |-> NoIndex]
            [] action.shape \in {"noName", "noParams"} ->
                 \* `Invalid action structure at index ${i}`
                 [threw |-> "LLMPlanValidationError", index |-> i]
            [] OTHER ->
                 LET validationResult == ActionValidatorValidate(action)
                 IN IF ~validationResult.isValid
                    THEN \* `... at index ${i} failed validation ...`
                         [threw |-> "LLMPlanValidationError", index |-> i]
                    ELSE ValidateFrom(actionQueue, i + 1,
                           Append(validatedActions,
                                  [parameters |-> validationResult.validatedParams,
                                   originalIndex |-> i]))

ValidateActionQueue(actionQueue) == ValidateFrom(actionQueue, 0, <<>>)

\* The planner returned an array; validateActionQueue has not run yet.
ValidationInit ==
  /\ CoreInit
  /\ validation \in [actionQueue : ActionArrays, outcome : {Pending}]
  /\ recovery = "none" /\ health = "none" /\ reflex = "none"
  /\ history = "none" /\ manager = "none" /\ failure = "none"

\* parseAndValidate calls validateActionQueue on the planner's array.
CallValidateActionQueue ==
  /\ validation.outcome = Pending
  /\ validation' = [validation EXCEPT
                      !.outcome = ValidateActionQueue(validation.actionQueue)]
  /\ UNCHANGED <<coreVars, recovery, health, reflex, history, manager, failure>>

ValidationNext == CallValidateActionQueue

ValidationSpec == ValidationInit /\ [][ValidationNext]_vars

\* The JavaScript indices of the entries that are not valid actions.
InvalidAt(actionQueue) ==
  {k \in 0..(Len(actionQueue) - 1) :
     \/ actionQueue[k + 1].shape # "action"
     \/ ~actionQueue[k + 1].isValid}

\* C15: validateActionQueue on an array whose only invalid entry is at index
\* k throws an error that names index k and returns no validated action; on
\* an all-valid array it returns one action per input action, in the input's
\* order, carrying the validator's validatedParams.
C15_AllOrNothingNamingTheIndex ==
  validation.outcome.threw # "pending" =>
    LET actionQueue == validation.actionQueue
        outcome == validation.outcome
    IN /\ \A k \in InvalidAt(actionQueue) :
            InvalidAt(actionQueue) = {k}
              => outcome.threw # "none" /\ outcome.index = k
       /\ InvalidAt(actionQueue) = {}
            => /\ outcome.threw = "none"
               /\ Len(outcome.validatedActions) = Len(actionQueue)
               /\ \A n \in 1..Len(actionQueue) :
                    /\ outcome.validatedActions[n].originalIndex = n - 1
                    /\ outcome.validatedActions[n].parameters
                         = actionQueue[n].validatedParams

\* The step is a Standard planning round ending in a validation rejection.
Rejected(step) == Logged(step, "LLMPlanValidationError")

\* C16: when validation rejects the plan of a Standard planning round,
\* Standard records an anti-action learning in that round and starts no
\* action of the rejected plan: its queue, its position and its state
\* machine service are what they were before the planner returned.
C16_RejectedPlanIsLearnedNotRun ==
  [][ Rejected(lastStep')
      => /\ Logged(lastStep', "addLearning antiAction")
         /\ std'.currentActionQueue = std.currentActionQueue
         /\ std'.currentActionIndex = std.currentActionIndex
         /\ std'.service = std.service
    ]_vars

\* A rejection reached a Standard that is executing, unpaused and without a plan.
C16_Witness ==
  /\ Rejected(lastStep)
  /\ std.isExecuting /\ ~std.isPaused
  /\ Len(std.currentActionQueue) = 0

\* ---------------------------------------------- ErrorRecovery, on its own
MaxFailures == 4
MaxWords == 4

\* SeverityLevels
SeverityLow == 1
SeverityMedium == 2
SeverityHigh == 3
SeverityCritical == 4

\* this.maxRetryAttempts, and the base and the cap of the backoff delay
MaxRetryAttempts == 3
BackoffBase == 1000
BackoffCap == 10000

\* An error is its code and its message; a message is a sequence of words,
\* and message.includes(pattern) is: the pattern's words occur in it in a row.
ErrorCodes == {"none", "ECONNREFUSED", "ETIMEDOUT", "EPIPE"}
Words == {"foo", "bar", "not", "found", "TIMEOUT", "timeout", "Action", "invalid"}

RECURSIVE MessagesOfLen(_)
MessagesOfLen(n) ==
  IF n = 0 THEN {<<>>}
  ELSE {Append(m, word) : m \in MessagesOfLen(n - 1), word \in Words}

Messages == UNION {MessagesOfLen(n) : n \in 0..MaxWords}

Includes(message, pattern) ==
  \E at \in 0..(Len(message) - Len(pattern)) :
     \A j \in 1..Len(pattern) : message[at + j] = pattern[j]

\* _initializeErrorPatterns, in the order of Object.entries
ErrorPatterns ==
  << [pattern |-> "ECONNREFUSED", words |-> <<"ECONNREFUSED">>,
      category |-> "network", severity |-> SeverityHigh, strategy |-> "reconnect"],
     [pattern |-> "ETIMEDOUT", words |-> <<"ETIMEDOUT">>,
      category |-> "network", severity |-> SeverityHigh, strategy |-> "retry_with_backoff"],
     [pattern |-> "ENOTFOUND", words |-> <<"ENOTFOUND">>,
      category |-> "network", severity |-> SeverityCritical, strategy |-> "abort_queue"],
     [pattern |-> "RESOURCE_NOT_FOUND", words |-> <<"RESOURCE_NOT_FOUND">>,
      category |-> "resource", severity |-> SeverityMedium, strategy |-> "request_new_plan"],
     [pattern |-> "TARGET_NOT_FOUND", words |-> <<"TARGET_NOT_FOUND">>,
      category |-> "resource", severity |-> SeverityLow, strategy |-> "fallback"],
     [pattern |-> "PATHFINDING_ERROR", words |-> <<"PATHFINDING_ERROR">>,
      category |-> "logic", severity |-> SeverityMedium, strategy |-> "fallback"],
     [pattern |-> "noPath", words |-> <<"noPath">>,
      category |-> "logic", severity |-> SeverityMedium, strategy |-> "request_new_plan"],
     [pattern |-> "INVALID_PARAMETER", words |-> <<"INVALID_PARAMETER">>,
      category |-> "validation", severity |-> SeverityHigh, strategy |-> "abort_action"],
     [pattern |-> "UNKNOWN_ACTION", words |-> <<"UNKNOWN_ACTION">>,
      category |-> "validation", severity |-> SeverityCritical, strategy |-> "abort_queue"],
     [pattern |-> "TIMEOUT", words |-> <<"TIMEOUT">>,
      category |-> "timing", severity |-> SeverityMedium, strategy |-> "retry"],
     [pattern |-> "Action timeout", words |-> <<"Action", "timeout">>,
      category |-> "timing", severity |-> SeverityMedium, strategy |-> "abort_action"],
     [pattern |-> "Bot is dead", words |-> <<"Bot", "is", "dead">>,
      category |-> "logic", severity |-> SeverityCritical, strategy |-> "emergency_mode"],
     [pattern |-> "Low health", words |-> <<"Low", "health">>,
      category |-> "logic", severity |-> SeverityHigh, strategy |-> "emergency_mode"] >>

\* error.code === pattern || error.message?.includes(pattern)
Matches(error, n) ==
  \/ error.code = ErrorPatterns[n].pattern
  \/ Includes(error.message, ErrorPatterns[n].words)

NoMatch == 0

\* Variant of the table scan that runs from the last entry to the first.
RECURSIVE LastMatchFrom(_, _)
LastMatchFrom(error, n) ==
  IF n < 1 THEN NoMatch
  ELSE IF Matches(error, n) THEN n
  ELSE LastMatchFrom(error, n - 1)

LastMatch(error) == LastMatchFrom(error, Len(ErrorPatterns))

\* The for loop of classifyError from entry n on: it returns at the first
\* entry that matches.
RECURSIVE FirstMatchFrom(_, _)
FirstMatchFrom(error, n) ==
  IF n > Len(ErrorPatterns) THEN NoMatch
  ELSE IF Matches(error, n) THEN n
  ELSE FirstMatchFrom(error, n + 1)

FirstMatch(error) == FirstMatchFrom(error, 1)

\* classifyError
ClassifyError(error) ==
  LET n == FirstMatch(error)
  IN IF n # NoMatch
     THEN [category |-> ErrorPatterns[n].category,
           severity |-> ErrorPatterns[n].severity,
           knownPattern |-> ErrorPatterns[n].pattern,
           strategy |-> ErrorPatterns[n].strategy]
     ELSE CASE error.code = "EPIPE" ->
                 \* error.code?.startsWith('E') && error.syscall
                 [category |-> "network", severity |-> SeverityHigh,
                  knownPattern |-> "null", strategy |-> "null"]
            [] Includes(error.message, <<"invalid">>) ->
                 [category |-> "validation", severity |-> SeverityMedium,
                  knownPattern |-> "null", strategy |-> "null"]
            [] Includes(error.message, <<"timeout">>) ->
                 [category |-> "timing", severity |-> SeverityMedium,
                  knownPattern |-> "null", strategy |-> "null"]
            [] Includes(error.message, <<"not", "found">>) ->
                 [category |-> "resource", severity |-> SeverityLow,
                  knownPattern |-> "null", strategy |-> "null"]
            [] OTHER ->
                 [category |-> "unknown", severity |-> SeverityMedium,
                  knownPattern |-> "null", strategy |-> "null"]

\* Variant of determineRecoveryStrategy that looks at the emergency context
\* before it looks for a repeated error.
DetermineEmergencyFirst(classification, queue, similar) ==
  IF classification.knownPattern # "null" THEN classification.strategy
  ELSE IF queue = "emergency"
       THEN IF classification.severity >= SeverityHigh THEN "abort_queue" ELSE "retry"
  ELSE IF similar >= 3 THEN "request_new_plan"
  ELSE CASE classification.category = "network" -> "retry_with_backoff"
         [] classification.category = "validation" -> "abort_action"
         [] classification.category = "resource" -> "fallback"
         [] classification.category = "timing" -> "retry"
         [] classification.category = "logic" -> "request_new_plan"
         [] OTHER -> "abort_action"

\* determineRecoveryStrategy; similar: the entries of errorHistory, the
\* current error among them, that getRecentSimilarErrors returns.
DetermineRecoveryStrategy(classification, queue, similar) ==
  IF classification.knownPattern # "null" THEN classification.strategy
  ELSE IF similar >= 3 THEN "request_new_plan"
  ELSE IF queue = "emergency"
       THEN IF classification.severity >= SeverityHigh THEN "abort_queue" ELSE "retry"
  ELSE CASE classification.category = "network" -> "retry_with_backoff"
         [] classification.category = "validation" -> "abort_action"
         [] classification.category = "resource" -> "fallback"
         [] classification.category = "timing" -> "retry"
         [] classification.category = "logic" -> "request_new_plan"
         [] OTHER -> "abort_action"

RECURSIVE Pow2(_)
Pow2(n) == IF n = 0 THEN 1 ELSE 2 * Pow2(n - 1)

Min(a, b) == IF a <= b THEN a ELSE b

NoDelay == 0

\* The switch of executeRecovery; attempts: recoveryAttempts.get(errorId) || 0
RecoveryResult(strategy, attempts) ==
  CASE strategy = "retry" ->
         IF attempts < MaxRetryAttempts
         THEN [action |-> "retry_action", success |-> TRUE, shouldLearn |-> FALSE,
               delay |-> NoDelay]
         ELSE [action |-> "max_retries_exceeded", success |-> FALSE,
               shouldLearn |-> TRUE, delay |-> NoDelay]
    [] strategy = "retry_with_backoff" ->
         IF attempts < MaxRetryAttempts
         THEN [action |-> "retry_with_delay", success |-> TRUE, shouldLearn |-> FALSE,
               delay |-> Min(BackoffBase * Pow2(attempts), BackoffCap)]
         ELSE [action |-> "abort_action", success |-> FALSE,
               shouldLearn |-> TRUE, delay |-> NoDelay]
    [] strategy = "fallback" ->
         [action |-> "use_fallback", success |-> TRUE, shouldLearn |-> TRUE, delay |-> NoDelay]
    [] strategy = "abort_action" ->
         [action |-> "skip_action", success |-> TRUE, shouldLearn |-> TRUE, delay |-> NoDelay]
    [] strategy = "abort_queue" ->
         [action |-> "clear_queue", success |-> TRUE, shouldLearn |-> TRUE, delay |-> NoDelay]
    [] strategy = "request_new_plan" ->
         [action |-> "new_plan", success |-> TRUE, shouldLearn |-> TRUE, delay |-> NoDelay]
    [] strategy = "emergency_mode" ->
         [action |-> "activate_emergency", success |-> TRUE, shouldLearn |-> FALSE,
          delay |-> NoDelay]
    [] strategy = "reconnect" ->
         [action |-> "reconnect", success |-> TRUE, shouldLearn |-> FALSE, delay |-> NoDelay]
    [] OTHER ->
         [action |-> "unknown_strategy", success |-> FALSE, shouldLearn |-> FALSE,
          delay |-> NoDelay]

\* recoveryAttempts.get(errorId) || 0 on a map kept as a set of <<id, count>>
AttemptsOf(recoveryAttempts, errorId) ==
  IF \E e \in recoveryAttempts : e[1] = errorId
  THEN (CHOOSE e \in recoveryAttempts : e[1] = errorId)[2]
  ELSE 0

\* executeRecovery: count the attempt under errorId, pick the result, forget
\* the errorId after a success or once the attempts are used up.
ExecuteRecovery(r, errorId, strategy) ==
  LET attempts == AttemptsOf(r.recoveryAttempts, errorId)
      result == RecoveryResult(strategy, attempts)
      others == {e \in r.recoveryAttempts : e[1] # errorId}
  IN [r EXCEPT
        !.recoveryAttempts =
            IF result.success \/ attempts >= MaxRetryAttempts THEN others
            ELSE others \cup {<<errorId, attempts + 1>>},
        !.result = result,
        !.strategy = strategy]

NoClassification ==
  [category |-> "none", severity |-> 0, knownPattern |-> "null", strategy |-> "null"]

NoResult == [action |-> "none", success |-> FALSE, shouldLearn |-> FALSE, delay |-> NoDelay]

\* An ErrorRecovery instance after construction, serving an operation that
\* fails with one error, called from one queue context.
RecoveryInit ==
  /\ CoreInit
  /\ recovery \in [error : [code : ErrorCodes, message : Messages],
                    queue : {"none", "emergency"},
                    handled : {0}, errorHistory : {0}, recoveryAttempts : {{}},
                    classification : {NoClassification}, strategy : {"none"},
                    result : {NoResult},
                    retries : {0}, lastDelay : {NoDelay}, delaysOrdered : {TRUE}]
  /\ validation = "none" /\ health = "none" /\ reflex = "none"
  /\ history = "none" /\ manager = "none" /\ failure = "none"

\* handleError(error, context): the operation failed again with its error.
\* errorId is uuidv4(), new on every call; the history entry is added before
\* the strategy is chosen, and the failures follow one another within the
\* lookback of getRecentSimilarErrors.  History: retries counts the results
\* that instruct a retry, lastDelay and delaysOrdered follow their delays.
HandleError ==
  /\ recovery.handled < MaxFailures
  /\ LET errorId == recovery.handled + 1
         classification == ClassifyError(recovery.error)
         r1 == [recovery EXCEPT !.handled = errorId,
                                !.errorHistory = @ + 1,
                                !.classification = classification]
         strategy == DetermineRecoveryStrategy(classification, recovery.queue,
                                               r1.errorHistory)
         r2 == ExecuteRecovery(r1, errorId, strategy)
         retry == r2.result.action \in {"retry_action", "retry_with_delay"}
     IN recovery' =
          [r2 EXCEPT
             !.retries = IF retry THEN @ + 1 ELSE @,
             !.lastDelay = IF r2.result.action = "retry_with_delay"
                           THEN r2.result.delay ELSE @,
             !.delaysOrdered = @ /\ (r2.result.action = "retry_with_delay"
                                      => recovery.lastDelay <= r2.result.delay)]
  /\ UNCHANGED <<coreVars, validation, health, reflex, history, manager, failure>>

RecoveryNext == HandleError

RecoverySpec == RecoveryInit /\ [][RecoveryNext]_vars

\* C17: classifyError is deterministic and takes the first matching entry of
\* the pattern table: an error with code ECONNREFUSED is network with
\* severity 3 whatever its message, and an error without code whose message
\* is 'foo not found bar' is resource with severity 1.
C17_FirstPatternDecides ==
  /\ [](recovery.handled > 0 =>
          LET error == recovery.error
              classification == recovery.classification
          IN /\ error.code = "ECONNREFUSED"
                  => /\ classification.category = "network"
                     /\ classification.severity = SeverityHigh
             /\ (error.code = "none" /\ error.message = <<"foo", "not", "found", "bar">>)
                  => /\ classification.category = "resource"
                     /\ classification.severity = SeverityLow
             /\ \A n \in 1..Len(ErrorPatterns) :
                  (Matches(error, n) /\ \A k \in 1..(n - 1) : ~Matches(error, k))
                    => classification.knownPattern = ErrorPatterns[n].pattern)
  /\ [][recovery.handled > 0 => recovery'.classification = recovery.classification]_vars

\* Classified twice: an ECONNREFUSED error whose message also holds a later
\* pattern of the table.
C17_Witness ==
  /\ recovery.handled = 2
  /\ recovery.error.code = "ECONNREFUSED"
  /\ Includes(recovery.error.message, <<"TIMEOUT">>)
  /\ recovery.classification.category = "network"

\* C18: of the results handleError gives an operation that keeps failing with
\* the same error, at most maxRetryAttempts instruct a retry, and the backoff
\* delays never decrease and never exceed the cap.
C18_RetriesAreBounded ==
  /\ recovery.retries <= MaxRetryAttempts
  /\ recovery.delaysOrdered
  /\ recovery.lastDelay <= BackoffCap

\* ------------------------------------------------------ Events, on its own
\* Health is counted in quarter points, so that half a point can be told
\* from less: 20 health is 80, the DAMAGE_THRESHOLD of 0.5 is 2 and the
\* HEALTH_CRITICAL_THRESHOLD of 6 is 24.  Food is counted in points.
FullHealth == 80
FullFood == 20
DamageThreshold == 2
HealthCriticalThreshold == 24
HungerCriticalThreshold == 10

\* bot.health and bot.food at a health signal
HealthValues == {0, 16, 23, 24, 25, 40, 78, 79, 80}
FoodValues == {9, 10, 20}

\* response.actionRequired || 'none', response.targetQueue || null
CreateEventMessage(eventType, priority, response) ==
  [eventType |-> eventType, priority |-> priority,
   actionRequired |-> IF response.actionRequired = "undefined" THEN "none"
                      ELSE response.actionRequired,
   targetQueue |-> IF response.targetQueue = "undefined" THEN "null"
                   ELSE response.targetQueue]

\* the {} handed to createEventMessage
NoResponse == [actionRequired |-> "undefined", targetQueue |-> "undefined"]

InterruptEmergency == [actionRequired |-> "interrupt", targetQueue |-> "emergency"]

\* Variant of the critical test that leaves the threshold itself out.
IsCriticalBelow(currentHealth) == currentHealth < HealthCriticalThreshold

\* const isCritical = currentHealth <= this.HEALTH_CRITICAL_THRESHOLD
IsCritical(currentHealth) == currentHealth <= HealthCriticalThreshold

\* The damage branch of handleHealth: the events it dispatches.
DamageEvents(lastHealth, currentHealth) ==
  IF currentHealth < lastHealth /\ (lastHealth - currentHealth) >= DamageThreshold
  THEN << CreateEventMessage("damage_received",
                             IF IsCritical(currentHealth) THEN 1 ELSE 2,
                             IF IsCritical(currentHealth) THEN InterruptEmergency
                             ELSE NoResponse) >>
  ELSE <<>>

\* The hunger branch of handleHealth: the events it dispatches.
HungerEvents(lastFood, currentFood) ==
  IF currentFood < HungerCriticalThreshold /\ lastFood >= HungerCriticalThreshold
  THEN << CreateEventMessage("hunger_critical", 2, InterruptEmergency) >>
  ELSE <<>>

\* The Events instance after construction.  History: signal is the last
\* health signal with the values tracked before it, emitted the events that
\* signal dispatched, reported what it passed to updateHealth.
HealthInit ==
  /\ CoreInit
  /\ health = [lastHealth |-> FullHealth, lastFood |-> FullFood,
               signal |-> <<FullHealth, FullFood, FullHealth, FullFood>>,
               emitted |-> <<>>, reported |-> <<FullHealth, FullFood>>]
  /\ validation = "none" /\ recovery = "none" /\ reflex = "none"
  /\ history = "none" /\ manager = "none" /\ failure = "none"

\* handleHealth: the bot's 'health' event with bot.health and bot.food.
HandleHealth ==
  /\ \E currentHealth \in HealthValues, currentFood \in FoodValues :
       health' =
         IF currentHealth = health.lastHealth /\ currentFood = health.lastFood
         THEN [health EXCEPT
                 !.signal = <<health.lastHealth, health.lastFood,
                              currentHealth, currentFood>>,
                 !.emitted = <<>>]
         ELSE [lastHealth |-> currentHealth, lastFood |-> currentFood,
               signal |-> <<health.lastHealth, health.lastFood,
                            currentHealth, currentFood>>,
               emitted |-> DamageEvents(health.lastHealth, currentHealth)
                             \o HungerEvents(health.lastFood, currentFood),
               reported |-> <<currentHealth, currentFood>>]
  /\ UNCHANGED <<coreVars, validation, recovery, reflex, history, manager, failure>>

HealthNext == HandleHealth

HealthSpec == HealthInit /\ [][HealthNext]_vars

\* The damage_received events the last health signal dispatched.
DamageEmitted == SelectSeq(health.emitted, LAMBDA e : e.eventType = "damage_received")

\* C19: a health signal yields a damage_received event only if health fell
\* by at least the minimum delta since the last signal; the event has
\* priority 1, interrupt, emergency exactly when the new health is at most 6,
\* otherwise priority 2 and no action; a drop from 20 to 4 yields one such
\* event with priority 1, interrupt, emergency.
C19_DamageEventFollowsTheDrop ==
  LET before == health.signal[1]
      now == health.signal[3]
      critical == [eventType |-> "damage_received", priority |-> 1,
                   actionRequired |-> "interrupt", targetQueue |-> "emergency"]
      plain == [eventType |-> "damage_received", priority |-> 2,
                actionRequired |-> "none", targetQueue |-> "null"]
  IN /\ Len(DamageEmitted) <= 1
     /\ Len(DamageEmitted) = 1 => before - now >= DamageThreshold
     /\ \A n \in 1..Len(DamageEmitted) :
          DamageEmitted[n] = IF now <= HealthCriticalThreshold THEN critical ELSE plain
     /\ (before = FullHealth /\ now = 16) => DamageEmitted = <<critical>>

\* A drop that ends exactly on the critical threshold was signalled.
C19_Witness ==
  /\ health.signal[1] = 40 /\ health.signal[3] = HealthCriticalThreshold
  /\ Len(DamageEmitted) = 1

\* ------------------------------------- EmergencyQueue's reflex, on its own
\* What the bot holds, how healthy it is, and whether a hostile mob is near.
InventoryItems == {"golden_apple", "bread", "carrot"}
ReflexHealth == {4, 6, 8, 12}
EmergencyEventTypes == {"damage_received", "hunger_critical"}

\* startEmergencyQueue: the context object built from the event
EmergencyContextOf(eventType) ==
  [type |-> IF eventType = "damage_received" THEN "damage" ELSE "hunger"]

\* The winston logger of the QueueManager: an object without a type.
TheLogger == [type |-> "undefined"]

\* new EmergencyQueue(bot, botStateManager, ollamaInterface, aiResponseParser,
\*                    botActions, learningManager, this.logger, emergencyContext)
ConstructorArguments(eventType) ==
  << [type |-> "bot"], [type |-> "botStateManager"], [type |-> "ollamaInterface"],
     [type |-> "aiResponseParser"], [type |-> "botActions"],
     [type |-> "learningManager"], TheLogger, EmergencyContextOf(eventType) >>

\* constructor(bot, botStateManager, ollamaInterface, aiResponseParser,
\*             botActions, learningManager, emergencyContext): the seventh
\* argument becomes this.emergencyContext.
EmergencyContextParameter == 7

\* healingItems.find(item => inventory has it), in the order of the list
AvailableHealing(inventory) ==
  CASE "golden_apple" \in inventory -> "golden_apple"
    [] "bread" \in inventory -> "bread"
    [] OTHER -> "undefined"

\* executeDamageReflex
ExecuteDamageReflex(bot) ==
  LET healing == IF bot.health <= 6 /\ AvailableHealing(bot.inventory) # "undefined"
                 THEN << [actionName |-> "consumeItem",
                          parameter |-> AvailableHealing(bot.inventory)] >>
                 ELSE <<>>
      threat == IF ~bot.hostileNear THEN <<>>
                ELSE IF bot.pvp /\ bot.health > 10
                     THEN << [actionName |-> "attack", parameter |-> "zombie"] >>
                     ELSE << [actionName |-> "flee", parameter |-> "zombie"] >>
  IN healing \o threat

\* The food executeHungerReflex eats: the highest foodValues entry held.
BestFood(inventory) ==
  CASE "golden_apple" \in inventory -> "golden_apple"
    [] "bread" \in inventory -> "bread"
    [] "carrot" \in inventory -> "carrot"
    [] OTHER -> "undefined"

\* executeHungerReflex
ExecuteHungerReflex(bot) ==
  IF BestFood(bot.inventory) # "undefined"
  THEN << [actionName |-> "consumeItem", parameter |-> BestFood(bot.inventory)] >>
  ELSE <<>>

\* executeImmediateReflex: switch (this.emergencyContext.type)
ExecuteImmediateReflex(emergencyContext, bot) ==
  CASE emergencyContext.type = "damage" ->
         [step |-> "damage", currentActionQueue |-> ExecuteDamageReflex(bot)]
    [] emergencyContext.type = "hunger" ->
         [step |-> "hunger", currentActionQueue |-> ExecuteHungerReflex(bot)]
    [] OTHER ->
         [step |-> "unknown emergency type", currentActionQueue |-> <<>>]

\* An emergency interrupt reaches the Queue Manager; no context exists yet.
ReflexInit ==
  /\ CoreInit
  /\ reflex \in [eventType : EmergencyEventTypes,
                  bot : [health : ReflexHealth, inventory : SUBSET InventoryItems,
                         hostileNear : BOOLEAN, pvp : BOOLEAN],
                  started : {FALSE}, step : {"none"}, currentActionQueue : {<<>>},
                  plannerRequested : {FALSE}]
  /\ validation = "none" /\ recovery = "none" /\ health = "none"
  /\ history = "none" /\ manager = "none" /\ failure = "none"

\* startEmergencyQueue(eventMessage) up to the first planner await of
\* EmergencyQueue.start: construct, reflex, needsLLMPlan.
StartEmergencyReflex ==
  /\ ~reflex.started
  /\ LET emergencyContext ==
           ConstructorArguments(reflex.eventType)[EmergencyContextParameter]
         done == ExecuteImmediateReflex(emergencyContext, reflex.bot)
     IN reflex' = [reflex EXCEPT
                     !.started = TRUE,
                     !.step = done.step,
                     !.currentActionQueue = done.currentActionQueue,
                     !.plannerRequested = Len(done.currentActionQueue) < 3]
  /\ UNCHANGED <<coreVars, validation, recovery, health, history, manager, failure>>

ReflexNext == StartEmergencyReflex

ReflexSpec == ReflexInit /\ [][ReflexNext]_vars

\* C20: an Emergency context started for damage_received with health at most
\* 6, a golden apple held and no hostile mob near runs the damage reflex and
\* queues exactly consumeItem(golden_apple); started for hunger_critical it
\* runs the hunger reflex.
C20_ReflexFollowsTheEvent ==
  reflex.started =>
    /\ ( /\ reflex.eventType = "damage_received"
         /\ reflex.bot.health <= 6
         /\ "golden_apple" \in reflex.bot.inventory
         /\ ~reflex.bot.hostileNear )
       => /\ reflex.step = "damage"
          /\ reflex.currentActionQueue
               = << [actionName |-> "consumeItem", parameter |-> "golden_apple"] >>
    /\ reflex.eventType = "hunger_critical" => reflex.step = "hunger"

\* ------------------------------------------------ claims on the event core
\* C21: an interrupt for respawn processed while an Emergency context is
\* active, or for emergency while a Respawn context is active, pauses the
\* active context into pausedQueue, makes a new context of the requested
\* type the active one, and processEvent does not throw.
C21_TemporaryContextsPreemptEachOther ==
  [][ ( /\ Processing({"interrupt"})
        /\ \/ activeQueue = "emergency" /\ cur.targetQueue = "respawn"
           \/ activeQueue = "respawn" /\ cur.targetQueue = "emergency" )
      => /\ activeQueue' = cur.targetQueue
         /\ pausedQueue' = activeQueue
         /\ Constructed(lastStep')
         /\ ~Thrown(lastStep')
    ]_vars

\* C22: a pause or resume event processed while a context is active leaves
\* activeQueue and pausedQueue as they were, and does not throw.
C22_PauseAndResumeKeepTheSlots ==
  [][ (Processing({"pause", "resume"}) /\ activeQueue # "null")
      => /\ activeQueue' = activeQueue
         /\ pausedQueue' = pausedQueue
         /\ ~Thrown(lastStep')
    ]_vars

\* C23: an interrupt whose targetQueue is neither emergency nor respawn is
\* logged as an error and changes nothing else: both slots and the active
\* context's running and paused state stay, and nothing is thrown.
C23_UnknownTargetChangesNothing ==
  [][ (Processing({"interrupt"}) /\ cur.targetQueue \notin {"emergency", "respawn"})
      => /\ activeQueue' = activeQueue
         /\ pausedQueue' = pausedQueue
         /\ std'.isExecuting = std.isExecuting
         /\ std'.isPaused = std.isPaused
         /\ ~Thrown(lastStep')
    ]_vars

\* ------------------------------------------------ claims on the contexts
\* The state machine service of Standard is running: executeActionQueue has
\* created and started it and neither pause() nor stop() has stopped it.
StandardServiceRunning == std.service = ServiceStart

\* C24: after pause() on Standard the context starts nothing until resume():
\* as long as it is paused its state machine service is not running, whatever
\* planner call settles and whatever plan is received in the meantime.
C24_PausedContextStartsNothing == std.isPaused => ~StandardServiceRunning

\* Standard is paused and holds a plan that it received while paused: no
\* state machine service was ever created for it.
C24_Witness ==
  /\ std.isPaused
  /\ Len(std.currentActionQueue) > 0
  /\ std.service = "none"

\* How often the step called `call`.
Count(step, call) == Cardinality({ i \in 1..Len(step) : step[i] = call })

\* C25: a step invokes the onComplete callback (QueueManager.handleQueueComplete)
\* at most once, and only for an Emergency or Respawn context that is executing,
\* that is started and neither stopped nor completed before; the step leaves
\* the context not executing and without a running state machine service, so
\* it cannot complete again.
C25_CompletesOnceAndNotAfterStop ==
  [][ Logged(lastStep', "handleQueueComplete")
      => /\ Count(lastStep', "handleQueueComplete") = 1
         /\ \/ /\ activeQueue = "emergency"
               /\ emg.exists /\ emg.isExecuting
               /\ ~emg'.isExecuting /\ emg'.service # ServiceStart
            \/ /\ activeQueue = "respawn"
               /\ rsp.exists /\ rsp.isExecuting
               /\ ~rsp'.isExecuting /\ rsp'.service # ServiceStart
    ]_vars

\* An Emergency context has just completed: its callback ran in this step
\* and the context is stopped and discarded.
C25_Witness ==
  /\ Count(lastStep, "handleQueueComplete") = 1
  /\ Logged(lastStep, "emergency.stop")
  /\ ~emg.exists /\ ~emg.isExecuting

\* The planner call of the Emergency context's start() is still awaited.
EmergencyPlanPending == \E p \in procs : p.wait = "wait_emg"

\* C26: every started Emergency context eventually invokes onComplete.  Until
\* it does, something it awaits is pending whose settling moves it on: here
\* the planner call of start(), since no state machine of this program ever
\* leaves 'idle' and so no action is ever in flight.  An executing context
\* with nothing pending stays as it is for ever.
C26_EmergencyDrivesToCompletion ==
  (emg.exists /\ emg.isExecuting) => EmergencyPlanPending

\* createEmergencyStateMachine: the states in which the resolution condition
\* has been evaluated, that is every state but the initial 'idle'.  The
\* machine enters 'checkCondition' from 'idle' on START and again after
\* every action.
EmergencyCheckedStates == {"checkCondition", "executeAction", "handleFailure", "complete"}

\* C27: the Emergency context evaluates its resolution condition before it
\* starts each action, so a context that has begun to execute a non-empty
\* queue (its planner call has settled and its state machine service is
\* started) has passed the condition check at least once.
C27_ConditionCheckedBeforeActions ==
  ( /\ emg.exists /\ emg.isExecuting
    /\ Len(emg.currentActionQueue) > 0
    /\ emg.service # "none" )
  => emg.service \in EmergencyCheckedStates

\* createActionStateMachine: the states the machine is in once it works on
\* the plan, that is every state but the initial 'idle'.  The machine enters
\* 'checkPause' from 'idle' on START.
StandardWorkingStates ==
  {"checkPause", "executeAction", "handleFailure", "paused", "complete"}

\* C28: once Standard holds a validated non-empty plan and is not paused, it
\* works through the plan from the first action on and then requests a fresh
\* plan: its state machine is at an action of the plan (or at the pause check
\* or the failure handling between two actions), or a planner request or a
\* retry timer is pending.
C28_PlanIsWorkedThrough ==
  (std.isExecuting /\ ~std.isPaused /\ Len(std.currentActionQueue) > 0)
  => \/ std.service \in StandardWorkingStates
     \/ PlanRequestsInFlight > 0
     \/ retryTimers > 0

\* A planning round of Standard has just failed: the catch block of
\* requestNewPlan ran in the last step.
PlanningRoundFailed == Logged(lastStep, "addLearning antiAction")

\* Standard has just begun a planning round outside an event.
PlanningRoundBegun == Logged(lastStep, "standard.requestNewPlan")

StandardActiveUnpaused ==
  activeQueue = "standard" /\ std.isExecuting /\ ~std.isPaused

C30_RespawnAsksThePlannerOnce ==
  [][ Logged(lastStep', "respawn.executeMission")
      => Count(lastStep', "ollama.planRespawn") = 1 ]_vars

\* createMissionStateMachine: the states in which checkMissionStatus (and
\* with it shouldAbortMission) has been evaluated, that is every state but
\* the initial 'idle'.  The machine enters 'checkMission' from 'idle' on
\* START and again after every action.
RespawnCheckedStates ==
  {"checkMission", "executeAction", "handleFailure", "abort", "complete"}

\* C31: the Respawn context checks its mission before each action (abort of
\* an item_recovery mission after 300 s or below 15 health, completion with
\* success at the end of the queue), so a context that executes its mission
\* (its state machine service is started) has passed that check at least
\* once.
C31_MissionIsCheckedBeforeActions ==
  (rsp.exists /\ rsp.isExecuting /\ rsp.service # "none")
  => rsp.service \in RespawnCheckedStates

\* ------------------------------------------------ claims on ErrorRecovery
\* The default strategy of a category, as the claim lists it.
CategoryDefault(category) ==
  CASE category = "network" -> "retry_with_backoff"
    [] category = "validation" -> "abort_action"
    [] category = "resource" -> "fallback"
    [] category = "timing" -> "retry"
    [] category = "logic" -> "request_new_plan"
    [] OTHER -> "abort_action"

\* The last handleError call matched a pattern / met a repeated error.
MatchedPattern == recovery.classification.knownPattern # "null"
RepeatedError == recovery.errorHistory >= 3

MaxHandled == 103     \* handleError calls in one behaviour
MaxVaried == 3        \* the first calls, whose error has any severity
MaxTicks == 2         \* steps of the clock in one behaviour
TickMs == 30000       \* one step of the clock, in milliseconds

\* this.maxHistorySize; the window and the count of shouldPanic
MaxHistorySize == 100
PanicWindowMs == 60000
PanicThreshold == 3

\* Variant of addToHistory that drops the entry just pushed.
AddToHistoryDropsNewest(errorHistory, historyEntry) ==
  LET pushed == Append(errorHistory, historyEntry)
  IN IF Len(pushed) > MaxHistorySize THEN SubSeq(pushed, 1, Len(pushed) - 1)
     ELSE pushed

\* addToHistory: push, then shift once the size limit is exceeded.
AddToHistory(errorHistory, historyEntry) ==
  LET pushed == Append(errorHistory, historyEntry)
  IN IF Len(pushed) > MaxHistorySize THEN Tail(pushed) ELSE pushed

\* The critical entries of a history that are younger than the window.  The
\* timestamp is kept as toISOString() of the clock and read back with
\* new Date(...).getTime(): both keep the milliseconds.
RecentCritical(entries, now) ==
  { i \in 1..Len(entries) :
      /\ now - entries[i].timestamp < PanicWindowMs
      /\ entries[i].severity = SeverityCritical }

\* shouldPanic
ShouldPanic(errorHistory, now) ==
  Cardinality(RecentCritical(errorHistory, now)) >= PanicThreshold

\* An ErrorRecovery instance after construction.  History: handledErrors is
\* every error handled so far, in arrival order.
HistoryInit ==
  /\ CoreInit
  /\ history = [errorHistory |-> <<>>, handled |-> 0, now |-> 0,
                handledErrors |-> <<>>, panic |-> "unknown"]
  /\ validation = "none" /\ recovery = "none" /\ health = "none"
  /\ reflex = "none" /\ manager = "none" /\ failure = "none"

\* handleError up to addToHistory: the error is classified (the first errors
\* of a behaviour are of medium or critical severity, the later ones are a
\* run of medium ones) and entered with the time of the call.
HandleErrorIntoHistory ==
  /\ history.handled < MaxHandled
  /\ \E severity \in IF history.handled < MaxVaried
                      THEN {SeverityMedium, SeverityCritical}
                      ELSE {SeverityMedium} :
       LET historyEntry == [errorId |-> history.handled + 1,
                            timestamp |-> history.now,
                            severity |-> severity]
       IN history' = [history EXCEPT
                        !.handled = @ + 1,
                        !.errorHistory = AddToHistory(@, historyEntry),
                        !.handledErrors = Append(@, historyEntry),
                        !.panic = "unknown"]
  /\ UNCHANGED <<coreVars, validation, recovery, health, reflex, manager, failure>>

\* Time passes between two calls.
Tick ==
  /\ history.now < MaxTicks * TickMs
  /\ history.handled <= MaxVaried
  /\ history' = [history EXCEPT !.now = @ + TickMs, !.panic = "unknown"]
  /\ UNCHANGED <<coreVars, validation, recovery, health, reflex, manager, failure>>

\* External code polls shouldPanic().
PollShouldPanic ==
  /\ history.panic = "unknown"
  /\ history' = [history EXCEPT
                   !.panic = IF ShouldPanic(history.errorHistory, history.now)
                             THEN "yes" ELSE "no"]
  /\ UNCHANGED <<coreVars, validation, recovery, health, reflex, manager, failure>>

HistoryNext == HandleErrorIntoHistory \/ Tick \/ PollShouldPanic

HistorySpec == HistoryInit /\ [][HistoryNext]_vars

\* The last n entries of a sequence.
LastN(seq, n) == SubSeq(seq, Len(seq) - Min(n, Len(seq)) + 1, Len(seq))

\* C33: the error history holds at most maxHistorySize entries, and they are
\* the most recently handled errors in arrival order.
C33_HistoryIsTheLatestHundred ==
  /\ Len(history.errorHistory) <= MaxHistorySize
  /\ history.errorHistory = LastN(history.handledErrors, MaxHistorySize)

\* The 102nd error has been handled: the two oldest entries are gone.
C33_Witness ==
  /\ history.handled = MaxHistorySize + 2
  /\ Len(history.errorHistory) = MaxHistorySize
  /\ history.errorHistory[1].errorId = 3

\* C34: shouldPanic() returns true exactly when at least 3 errors of
\* critical severity were handled within the last 60 seconds.
C34_PanicCountsTheHandledErrors ==
  history.panic # "unknown" =>
    ( history.panic = "yes"
      <=> Cardinality(RecentCritical(history.handledErrors, history.now))
            >= PanicThreshold )

\* ------------------------------------------------------------------ C35
\* C35: a failed write of the learning repository is never fatal: a step in
\* which Standard records a failed planning round still arms the re-plan
\* timer, and no learning error leaves requestNewPlan.
C35_LearningFailureIsNotFatal ==
  [][ PlanningRoundFailed' =>
        /\ retryTimers' = retryTimers + 1
        /\ ~LearningThrown(lastStep') ]_vars

\* ======================================================= BotStateManager
MaxSetterCalls == 3
MaxClock == 3

\* A timestamp field that holds null.
NoTime == 0 - 1

\* this.state after the constructor (the fields the setters write); the
\* stability is kept in hundredths.
InitialBotState ==
  [isExecutingAction |-> FALSE, currentAction |-> "null",
   actionStartTime |-> NoTime, lastActionDuration |-> 0, botMode |-> "idle",
   isInCombat |-> FALSE, combatTarget |-> "null", lastDamageTime |-> NoTime,
   isInteractingWithContainer |-> FALSE, containerType |-> "null",
   containerPosition |-> "null",
   isSystemPaused |-> FALSE, pauseReason |-> "null",
   currentQueue |-> "null", queuePriority |-> 0,
   isWatchingPlayer |-> FALSE, watchingPlayerName |-> "null",
   lastHealth |-> 20, lastFood |-> 20,
   isDead |-> FALSE, deathPosition |-> "null", deathReason |-> "null",
   lastRespawn |-> NoTime,
   isConnected |-> FALSE, connectionStability |-> 100, lastHeartbeat |-> NoTime,
   currentGoal |-> "null", currentHandlung |-> "null", handlungProgress |-> 0]

\* Variant of setExecutingAction without the check for a change.
SetExecutingActionUnguarded(state, isExecuting, actionName, now) ==
  LET s1 == [state EXCEPT !.isExecutingAction = isExecuting,
                          !.currentAction = actionName,
                          !.actionStartTime = IF isExecuting THEN now ELSE NoTime]
  IN IF isExecuting THEN [s1 EXCEPT !.botMode = "executing"]
     ELSE [s1 EXCEPT !.lastActionDuration =
                        IF s1.actionStartTime \notin {NoTime, 0}
                        THEN now - s1.actionStartTime ELSE 0,
                     !.botMode = "idle"]

\* BotStateManager.setExecutingAction
SetExecutingAction(state, isExecuting, actionName, now) ==
  IF state.isExecutingAction = isExecuting /\ state.currentAction = actionName
  THEN state
  ELSE LET s1 == [state EXCEPT !.isExecutingAction = isExecuting,
                               !.currentAction = actionName,
                               !.actionStartTime = IF isExecuting THEN now ELSE NoTime]
       IN IF isExecuting THEN [s1 EXCEPT !.botMode = "executing"]
          ELSE [s1 EXCEPT !.lastActionDuration =
                             IF s1.actionStartTime \notin {NoTime, 0}
                             THEN now - s1.actionStartTime ELSE 0,
                          !.botMode = "idle"]

\* BotStateManager.setInCombat
SetInCombat(state, inCombat, target) ==
  IF state.isInCombat = inCombat /\ state.combatTarget = target
  THEN state
  ELSE LET s1 == [state EXCEPT !.isInCombat = inCombat, !.combatTarget = target]
       IN IF inCombat THEN [s1 EXCEPT !.botMode = "combat"]
          ELSE IF s1.botMode = "combat" THEN [s1 EXCEPT !.botMode = "idle"]
          ELSE s1

\* BotStateManager.setInteractingWithContainer
SetInteractingWithContainer(state, interacting, containerType, position) ==
  IF state.isInteractingWithContainer = interacting
  THEN state
  ELSE [state EXCEPT !.isInteractingWithContainer = interacting,
                     !.containerType = containerType,
                     !.containerPosition = position]

\* BotStateManager.setSystemPaused
SetSystemPaused(state, paused, reason) ==
  IF state.isSystemPaused = paused
  THEN state
  ELSE [state EXCEPT !.isSystemPaused = paused, !.pauseReason = reason,
                     !.botMode = IF paused THEN "paused" ELSE "idle"]

\* BotStateManager.setCurrentQueue on the whole state record
SetQueueOfState(state, queueType, priority) ==
  IF state.currentQueue = queueType
  THEN state
  ELSE [state EXCEPT !.currentQueue = queueType, !.queuePriority = priority]

\* BotStateManager.setWatchingPlayer
SetWatchingPlayer(state, watching, playerName) ==
  IF state.isWatchingPlayer = watching
  THEN state
  ELSE [state EXCEPT !.isWatchingPlayer = watching,
                     !.watchingPlayerName = playerName,
                     !.botMode = IF watching THEN "watching" ELSE "idle"]

\* BotStateManager.updateHealth: the damage time is compared against the
\* health that was just stored.
UpdateHealth(state, healthValue, food, now) ==
  LET healthChanged == state.lastHealth # healthValue
      foodChanged == state.lastFood # food
      s1 == [state EXCEPT !.lastHealth = healthValue, !.lastFood = food]
  IN IF ~healthChanged /\ ~foodChanged THEN state
     ELSE IF healthChanged /\ healthValue < s1.lastHealth
          THEN [s1 EXCEPT !.lastDamageTime = now]
          ELSE s1

\* BotStateManager.setDead
SetDead(state, dead, position, reason, now) ==
  IF state.isDead = dead
  THEN state
  ELSE LET s1 == [state EXCEPT !.isDead = dead, !.deathPosition = position,
                               !.deathReason = reason]
       IN IF dead THEN s1 ELSE [s1 EXCEPT !.lastRespawn = now]

\* BotStateManager.setConnected
SetConnected(state, connected, now) ==
  IF state.isConnected = connected
  THEN state
  ELSE [state EXCEPT !.isConnected = connected,
                     !.lastHeartbeat = IF connected THEN now ELSE NoTime]

\* Math.max(0, Math.min(1, stability)), in hundredths
ClampStability(stability) ==
  IF stability < 0 THEN 0 ELSE IF stability > 100 THEN 100 ELSE stability

\* BotStateManager.updateConnectionStability
UpdateConnectionStability(state, stability, now) ==
  [state EXCEPT !.connectionStability = ClampStability(stability),
                !.lastHeartbeat = now]

\* BotStateManager.setCurrentGoal
SetCurrentGoal(state, goal) ==
  IF state.currentGoal = goal THEN state
  ELSE [state EXCEPT !.currentGoal = goal]

\* BotStateManager.setCurrentHandlung
SetCurrentHandlung(state, handlung, progress) ==
  [state EXCEPT !.currentHandlung = handlung, !.handlungProgress = progress]

\* A call of a setter: its name and its arguments (a flag, up to two texts,
\* a number and a second number, each left at its default when the setter
\* has no such argument).
SetterCall(name, flag, text, text2, num, num2) ==
  [name |-> name, flag |-> flag, text |-> text, text2 |-> text2,
   num |-> num, num2 |-> num2]

NoCall == SetterCall("none", FALSE, "null", "null", 0, 0)

SetterCalls ==
  { SetterCall("setExecutingAction", f, t, "null", 0, 0) :
      f \in BOOLEAN, t \in {"null", "dig"} } \cup
  { SetterCall("setInCombat", f, t, "null", 0, 0) :
      f \in BOOLEAN, t \in {"null", "zombie"} } \cup
  { SetterCall("setInteractingWithContainer", f, t, t, 0, 0) :
      f \in BOOLEAN, t \in {"null", "chest"} } \cup
  { SetterCall("setSystemPaused", f, t, "null", 0, 0) :
      f \in BOOLEAN, t \in {"null", "user"} } \cup
  { SetterCall("setCurrentQueue", FALSE, q[1], "null", q[2], 0) :
      q \in {<<"null", 0>>, <<"standard", 3>>, <<"emergency", 1>>} } \cup
  { SetterCall("setWatchingPlayer", f, t, "null", 0, 0) :
      f \in BOOLEAN, t \in {"null", "steve"} } \cup
  { SetterCall("updateHealth", FALSE, "null", "null", h, fd) :
      h \in {20, 10}, fd \in {20, 10} } \cup
  { SetterCall("setDead", f, t, t, 0, 0) :
      f \in BOOLEAN, t \in {"null", "lava"} } \cup
  { SetterCall("setConnected", f, "null", "null", 0, 0) : f \in BOOLEAN } \cup
  { SetterCall("updateConnectionStability", FALSE, "null", "null", n, 0) :
      n \in {50, 100, 150} } \cup
  { SetterCall("setCurrentGoal", FALSE, t, "null", 0, 0) :
      t \in {"null", "goal"} } \cup
  { SetterCall("setCurrentHandlung", FALSE, t, "null", n, 0) :
      t \in {"null", "mine"}, n \in {0, 50} }

\* The state after the call c at the time now.
ApplySetter(state, c, now) ==
  CASE c.name = "setExecutingAction" ->
         SetExecutingAction(state, c.flag, c.text, now)
    [] c.name = "setInCombat" -> SetInCombat(state, c.flag, c.text)
    [] c.name = "setInteractingWithContainer" ->
         SetInteractingWithContainer(state, c.flag, c.text, c.text2)
    [] c.name = "setSystemPaused" -> SetSystemPaused(state, c.flag, c.text)
    [] c.name = "setCurrentQueue" -> SetQueueOfState(state, c.text, c.num)
    [] c.name = "setWatchingPlayer" -> SetWatchingPlayer(state, c.flag, c.text)
    [] c.name = "updateHealth" -> UpdateHealth(state, c.num, c.num2, now)
    [] c.name = "setDead" -> SetDead(state, c.flag, c.text, c.text2, now)
    [] c.name = "setConnected" -> SetConnected(state, c.flag, now)
    [] c.name = "updateConnectionStability" ->
         UpdateConnectionStability(state, c.num, now)
    [] c.name = "setCurrentGoal" -> SetCurrentGoal(state, c.text)
    [] c.name = "setCurrentHandlung" -> SetCurrentHandlung(state, c.text, c.num)

\* The arguments of the call c are the values the state already holds.
AlreadyStored(state, c) ==
  CASE c.name = "setExecutingAction" ->
         state.isExecutingAction = c.flag /\ state.currentAction = c.text
    [] c.name = "setInCombat" ->
         state.isInCombat = c.flag /\ state.combatTarget = c.text
    [] c.name = "setInteractingWithContainer" ->
         /\ state.isInteractingWithContainer = c.flag
         /\ state.containerType = c.text
         /\ state.containerPosition = c.text2
    [] c.name = "setSystemPaused" ->
         state.isSystemPaused = c.flag /\ state.pauseReason = c.text
    [] c.name = "setCurrentQueue" ->
         state.currentQueue = c.text /\ state.queuePriority = c.num
    [] c.name = "setWatchingPlayer" ->
         state.isWatchingPlayer = c.flag /\ state.watchingPlayerName = c.text
    [] c.name = "updateHealth" ->
         state.lastHealth = c.num /\ state.lastFood = c.num2
    [] c.name = "setDead" ->
         /\ state.isDead = c.flag
         /\ state.deathPosition = c.text
         /\ state.deathReason = c.text2
    [] c.name = "setConnected" -> state.isConnected = c.flag
    [] c.name = "updateConnectionStability" -> state.connectionStability = c.num
    [] c.name = "setCurrentGoal" -> state.currentGoal = c.text
    [] c.name = "setCurrentHandlung" ->
         state.currentHandlung = c.text /\ state.handlungProgress = c.num

\* A BotStateManager after construction at time 1.  History: the last call,
\* its time, the state before it, whether it repeated the call before it and whether
\* its arguments were the stored values.
ManagerInit ==
  /\ CoreInit
  /\ manager = [state |-> InitialBotState, now |-> 1, calls |-> 0,
                call |-> NoCall, at |-> 1, before |-> InitialBotState,
                repeated |-> FALSE, stored |-> FALSE]
  /\ validation = "none" /\ recovery = "none" /\ health = "none"
  /\ reflex = "none" /\ history = "none" /\ failure = "none"

\* One of the setters is called.
CallSetter ==
  /\ manager.calls < MaxSetterCalls
  /\ \E c \in SetterCalls :
       manager' = [manager EXCEPT
                     !.state = ApplySetter(manager.state, c, manager.now),
                     !.calls = @ + 1,
                     !.call = c,
                     !.at = manager.now,
                     !.before = manager.state,
                     !.repeated = (c = manager.call),
                     !.stored = AlreadyStored(manager.state, c)]
  /\ UNCHANGED <<coreVars, validation, recovery, health, reflex, history, failure>>

\* Date.now() advances between two calls.
ClockAdvances ==
  /\ manager.now < MaxClock
  /\ manager' = [manager EXCEPT !.now = @ + 1]
  /\ UNCHANGED <<coreVars, validation, recovery, health, reflex, history, failure>>

ManagerNext == CallSetter \/ ClockAdvances

ManagerSpec == ManagerInit /\ [][ManagerNext]_vars

ReturningSpec ==
  /\ Init /\ [][FairNext]_vars
  /\ WF_vars(TryToStartAnother)
  /\ WF_vars(RunProcessEvent)
  /\ SF_vars(StandardPlanReturns)
  /\ SF_vars(FreePlanReturns)
  /\ SF_vars(RetryTimerFires)
  /\ SF_vars(EmergencyPlanSettles)
  /\ SF_vars(RespawnLoadSettles)

\* A processEvent call is suspended in start() or resume() of Standard.
StandardAwaited == \E p \in procs : p.wait = "wait_std"

\* C37: provided every planner call returns, a processEvent call that
\* starts or resumes Standard eventually returns control to the dispatcher.
C37_ProcessEventReturns == StandardAwaited ~> ~StandardAwaited

\* ------------------------------------------------------------------ C38
\* The context reads queue[index] when its service enters executeAction.
ReadsAnAction(q) == q.service = "executeAction"

\* The index of a context is a position of its plan or the plan's end, and
\* the context reads an action only at a position of the plan.
IndexWithinPlan(q) ==
  /\ 0 <= q.currentActionIndex
  /\ q.currentActionIndex <= Len(q.currentActionQueue)
  /\ ReadsAnAction(q) => q.currentActionIndex < Len(q.currentActionQueue)

MaxFailPlanLen == 3

\* The actions a validated plan is made of, with and without a fallback.
FailPlanActions ==
  { [actionName |-> "goTo", fallbackAction |-> "null"],
    [actionName |-> "findBlock", fallbackAction |-> "explore"] }

FailPlans == UNION { [1..n -> FailPlanActions] : n \in 1..MaxFailPlanLen }

\* Variant of the replacement that hands the fallback on.
FallbackKeepsFallback(failedAction) ==
  [actionName |-> failedAction.fallbackAction,
   fallbackAction |-> failedAction.fallbackAction]

\* The action that takes the place of a failed one: its fallback, without a
\* fallback of its own.
FallbackOf(failedAction) ==
  [actionName |-> failedAction.fallbackAction, fallbackAction |-> "null"]

\* StandardQueue.handleActionFailure on the plan q and the index i: the
\* anti-learning is written first (stored: the repository accepts it), then
\* the fallback is put in place and RETRY sent, or ABORT.
StandardHandleActionFailure(q, i, stored) ==
  LET failedAction == q[i + 1]
  IN IF ~stored THEN [queue |-> q, index |-> i, event |-> "threw"]
     ELSE IF failedAction.fallbackAction # "null"
     THEN [queue |-> [q EXCEPT ![i + 1] = FallbackOf(failedAction)],
           index |-> i, event |-> "RETRY"]
     ELSE [queue |-> q, index |-> i, event |-> "ABORT"]

\* EmergencyQueue.handleActionFailure: the fallback and RETRY, or the next
\* action.
EmergencyHandleActionFailure(q, i) ==
  LET failedAction == q[i + 1]
  IN IF failedAction.fallbackAction # "null"
     THEN [queue |-> [q EXCEPT ![i + 1] = FallbackOf(failedAction)],
           index |-> i, event |-> "RETRY"]
     ELSE [queue |-> q, index |-> i + 1, event |-> "NEXT"]

\* RespawnQueue.handleActionFailure: as in the emergency context.
RespawnHandleActionFailure(q, i) ==
  LET failedAction == q[i + 1]
  IN IF failedAction.fallbackAction # "null"
     THEN [queue |-> [q EXCEPT ![i + 1] = FallbackOf(failedAction)],
           index |-> i, event |-> "RETRY"]
     ELSE [queue |-> q, index |-> i + 1, event |-> "NEXT"]

\* A context with a validated plan whose action at the index was started and
\* failed.  History: the plan as it was received, and for each position how
\* often an action was started there.
FailureInit ==
  /\ CoreInit
  /\ \E kind \in {"standard", "emergency", "respawn"}, plan \in FailPlans :
       \E i \in 0..(Len(plan) - 1) :
         failure = [kind |-> kind, currentActionQueue |-> plan,
                    currentActionIndex |-> i, event |-> "FAILURE",
                    plan |-> plan,
                    starts |-> [p \in 1..Len(plan) |-> IF p = i + 1 THEN 1 ELSE 0]]
  /\ validation = "none" /\ recovery = "none" /\ health = "none"
  /\ reflex = "none" /\ history = "none" /\ manager = "none"

\* The machine is in handleFailure: the context's handler runs.
HandleActionFailure ==
  /\ failure.event = "FAILURE"
  /\ \E stored \in BOOLEAN :
       LET r == CASE failure.kind = "standard" ->
                       StandardHandleActionFailure(failure.currentActionQueue,
                                                   failure.currentActionIndex, stored)
                  [] failure.kind = "emergency" ->
                       EmergencyHandleActionFailure(failure.currentActionQueue,
                                                    failure.currentActionIndex)
                  [] failure.kind = "respawn" ->
                       RespawnHandleActionFailure(failure.currentActionQueue,
                                                  failure.currentActionIndex)
       IN failure' = [failure EXCEPT !.currentActionQueue = r.queue,
                                     !.currentActionIndex = r.index,
                                     !.event = r.event]
  /\ UNCHANGED <<coreVars, validation, recovery, health, reflex, history, manager>>

\* RETRY, or NEXT with actions left: the action at the index is started, and
\* it fails (FAILURE) or succeeds (SUCCESS, the index moves on and the next
\* action, if any, is started in turn by a later step).  The catch block of
\* EmergencyQueue.executeCurrentAction calls an undeclared handleError, so a
\* failed emergency action leaves with a ReferenceError and sends nothing.
StartAction ==
  /\ failure.event \in {"RETRY", "NEXT", "SUCCESS"}
  /\ failure.currentActionIndex < Len(failure.currentActionQueue)
  /\ \E succeeds \in BOOLEAN :
       failure' = [failure EXCEPT
                     !.starts[failure.currentActionIndex + 1] = @ + 1,
                     !.currentActionIndex = IF succeeds THEN @ + 1 ELSE @,
                     !.event = IF succeeds THEN "SUCCESS"
                               ELSE IF failure.kind = "emergency" THEN "threw"
                               ELSE "FAILURE"]
  /\ UNCHANGED <<coreVars, validation, recovery, health, reflex, history, manager>>

FailureNext == HandleActionFailure \/ StartAction

FailureSpec == FailureInit /\ [][FailureNext]_vars

RECURSIVE SumOf(_)
SumOf(counts) ==
  IF Len(counts) = 0 THEN 0 ELSE Head(counts) + SumOf(Tail(counts))

\* C39: the action at a plan position is started at most twice, once as
\* planned and at most once as its fallback replacement, which carries no
\* fallback itself; a plan of n actions causes at most 2n action starts.
C39_AtMostTwoStartsPerPosition ==
  /\ \A p \in 1..Len(failure.plan) :
       /\ failure.starts[p] <= 2
       /\ failure.starts[p] = 2 =>
            /\ failure.plan[p].fallbackAction # "null"
            /\ failure.currentActionQueue[p] = FallbackOf(failure.plan[p])
  /\ SumOf(failure.starts) <= 2 * Len(failure.plan)

C39_Witness ==
  /\ failure.kind = "respawn"
  /\ Len(failure.plan) = 2
  /\ failure.starts = <<2, 2>>
  /\ failure.event = "NEXT"
  /\ failure.currentActionIndex = 2
====
